---- MODULE Spec2Model ----
(***************************************************************************)
(* State-machine model of the NEET quiz bot: the scoring engine            *)
(* (database.update_user_stats), the poll-answer handler, poll tracking    *)
(* (active_polls) and the two dispatch paths (send_random_quiz and         *)
(* auto_quiz_job) of main.py.                                              *)
(*                                                                         *)
(* Specifications sharing the actions:                                     *)
(*   Spec         answers and on-demand quizzes. handle_poll_answer never  *)
(*                awaits before its last store statement and the store     *)
(*                client is synchronous, so one answer is one step;        *)
(*                send_random_quiz yields at its awaits and anything may   *)
(*                run there.                                               *)
(*   SpecFault    Spec plus store errors: an execute() call raises and the *)
(*                statements already executed stay committed, because      *)
(*                every execute() is its own auto-committed request        *)
(*                (TursoCursor.commit is a no-op).                         *)
(*   SpecConc     several poll-answer handlers in flight against the       *)
(*                shared remote store, their statements interleaved one by *)
(*                one.                                                     *)
(*   SpecDispatch send_random_quiz and auto_quiz_job (a job-queue task     *)
(*                that runs while a handler awaits) with the commands that *)
(*                feed them.                                               *)
(*   SpecDispatchFault                                                     *)
(*                SpecDispatch plus store errors in the statements of the  *)
(*                two dispatch paths.                                      *)
(*   SpecJob      auto_quiz_job alone, with several groups registered.     *)
(*   SpecTrack    the dispatch paths when the platform may return a poll   *)
(*                id that is already tracked.                              *)
(*   SpecBoard    database.update_user_stats called directly for several   *)
(*                users, groups and days, and get_leaderboard_data read in *)
(*                every state.                                             *)
(*   SpecLabel    database.update_user_stats called with null, empty and   *)
(*                non-empty usernames and first names, and the labels of   *)
(*                get_leaderboard_data read in every state.                *)
(*   SpecRank     database.update_user_stats called for several users in   *)
(*                several groups, and the ranks of /mystats read in every  *)
(*                state.                                                   *)
(*   SpecFrame    database.update_user_stats called for several users      *)
(*                while questions are stored and polls are tracked.        *)
(*   SpecAdmin    the admin commands with their admin and owner checks;    *)
(*                addquestion yields while it downloads a document and     *)
(*                the other commands may run there.                        *)
(*   SpecImport   /addquestion, by message text and by document, and       *)
(*                /autoquiz with valid and invalid input.                  *)
(* Not modelled: the compliment lookup and message at the end of           *)
(* handle_poll_answer (reads and a send), the read-only admin commands     *)
(* (/adminlist, /questions, /listcompliments), the group commands          *)
(* /comp_toggle and /setcomp with their tables, the wording of replies.    *)
(***************************************************************************)
EXTENDS Integers, Sequences, FiniteSets, TLC

\* ---------------------------------------------------------------- bounds
MaxUsers     == 1   \* user ids 1..MaxUsers
MaxGroups    == 1   \* group chat ids -1..-MaxGroups
MaxDay       == 2   \* calendar days 1..MaxDay
MaxAnswers   == 4   \* answer events that reach update_user_stats
MaxConcCalls == 3   \* the same, in the statement-interleaving specification
MaxErrors    == 1   \* store errors raised
MaxPolls     == 2   \* polls the platform creates
MaxQuestions == 2   \* question rows ever inserted
NumHandlers  == 2   \* poll-answer handlers in flight at once
MaxMembers   == 3   \* user ids 1..MaxMembers in the leaderboard specification
MaxRecorded  == 3   \* update_user_stats calls in the leaderboard specification
MaxRankGroups == 2  \* group chat ids -1..-MaxRankGroups in the rank specification
MaxCompliments == 1 \* rows ever inserted into compliments
OWNER_ID     == 9   \* main.py 26; stands for 6435499094, beyond TLC's integers

Users    == 1..MaxUsers
GroupIds == {0 - g : g \in 1..MaxGroups}
ChatIds  == Users \cup GroupIds          \* a private chat has its user's id
PollIds  == 1..MaxPolls
Days     == 1..MaxDay
Handlers == 1..NumHandlers

NULL         == "NULL"
UserNames    == {NULL, "nick"}           \* telegram User.username (optional)
FirstNames   == {"Name"}                 \* telegram User.first_name
MarkerInputs == {"1", "b", "x"}          \* answer-key lines of import blocks
AnswerOptions == {0, 1}                  \* option_ids[0] of an answer event

Members        == 1..MaxMembers
ProfileNames   == {NULL, "", "nick"}     \* username argument of update_user_stats
ProfileFirsts  == {NULL, "", "Name"}     \* first_name argument (default None)
BoardFirsts    == {NULL, "Name"}         \* the same where no name is read back
GroupArgs      == {0} \cup GroupIds      \* chat_id argument; 0 is falsy like None
Limits         == {1, 2, 10}             \* limit argument of get_leaderboard_data
RankGroups     == {0 - g : g \in 1..MaxRankGroups}
RankArgs       == {0} \cup RankGroups    \* chat_id argument, several groups

\* ------------------------------------------------------------- helpers
Put(f, k, v) == [x \in (DOMAIN f) \cup {k} |-> IF x = k THEN v ELSE f[x]]

Del(f, k) == [x \in (DOMAIN f) \ {k} |-> f[x]]

EmptyTable == [x \in {} |-> 0]

SetMin(S) == CHOOSE x \in S : \A y \in S : x <= y

RECURSIVE AscendingSeq(_)
AscendingSeq(S) == IF S = {} THEN <<>>
                   ELSE <<SetMin(S)>> \o AscendingSeq(S \ {SetMin(S)})

\* sum of one column over the rows of tbl whose key is in keys
RECURSIVE SumField(_, _, _)
SumField(tbl, keys, field) ==
  IF keys = {} THEN 0
  ELSE LET k == CHOOSE y \in keys : TRUE
       IN  tbl[k][field] + SumField(tbl, keys \ {k}, field)

\* str.upper() on the characters an answer key can hold
Upper(m) == CASE m = "a" -> "A" [] m = "b" -> "B" [] m = "c" -> "C"
              [] m = "d" -> "D" [] m = "x" -> "X" [] OTHER -> m

ValidMarkers == {"1", "2", "3", "4", "A", "B", "C", "D"}

correct_map == [k \in ValidMarkers |->
                 CASE k \in {"1", "A"} -> 0 [] k \in {"2", "B"} -> 1
                   [] k \in {"3", "C"} -> 2 [] OTHER -> 3]

\* correct_map.get(str(q['correct']).upper(), 0)
CorrectIdx(marker) == IF Upper(marker) \in DOMAIN correct_map
                      THEN correct_map[Upper(marker)] ELSE 0

\* mutant: the INSERT leaves attempted at its DEFAULT 0
StatsCorrectInsert_NoAttempt(today) ==
  [attempted |-> 0, correct |-> 1, score |-> 4, current_streak |-> 1,
   max_streak |-> 1, last_activity_date |-> today]

\* ------------------------------------------------ scoring (stats table)
\* VALUES (?, 1, 1, 4, 1, 1, ?)
StatsCorrectInsert(today) ==
  [attempted |-> 1, correct |-> 1, score |-> 4, current_streak |-> 1,
   max_streak |-> 1, last_activity_date |-> today]

\* VALUES (?, 1, 0, -1, 0, ?)  -- max_streak takes its DEFAULT 0
StatsWrongInsert(today) ==
  [attempted |-> 1, correct |-> 0, score |-> 0 - 1, current_streak |-> 0,
   max_streak |-> 0, last_activity_date |-> today]

\* mutant: compares and stores the streak before its increment
NewMaxStreak_PreIncrement(row) ==
  IF row.current_streak > row.max_streak
  THEN row.current_streak ELSE row.max_streak

\* CASE WHEN (current_streak + 1) > max_streak THEN (current_streak + 1)
\* ELSE max_streak END
NewMaxStreak(row) ==
  IF row.current_streak + 1 > row.max_streak
  THEN row.current_streak + 1 ELSE row.max_streak

\* mutant: INSERT OR REPLACE instead of ON CONFLICT DO UPDATE
StatsCorrectUpdate_Replace(row, today) ==
  [attempted |-> 1, correct |-> 1, score |-> 4, current_streak |-> 1,
   max_streak |-> 1, last_activity_date |-> today]

\* ON CONFLICT(user_id) DO UPDATE SET ... of the correct branch; every
\* right-hand side reads the row as it was before the statement
StatsCorrectUpdate(row, today) ==
  [attempted |-> row.attempted + 1, correct |-> row.correct + 1,
   score |-> row.score + 4, current_streak |-> row.current_streak + 1,
   max_streak |-> NewMaxStreak(row), last_activity_date |-> today]

\* mutant: the wrong branch forgets the -1
StatsWrongUpdate_NoPenalty(row, today) ==
  [attempted |-> row.attempted + 1, correct |-> row.correct,
   score |-> row.score, current_streak |-> 0,
   max_streak |-> row.max_streak, last_activity_date |-> today]

\* mutant: the wrong branch forgets to reset the streak
StatsWrongUpdate_KeepStreak(row, today) ==
  [attempted |-> row.attempted + 1, correct |-> row.correct,
   score |-> row.score - 1, current_streak |-> row.current_streak,
   max_streak |-> row.max_streak, last_activity_date |-> today]

\* mutant: the wrong branch resets the best streak with the current one
StatsWrongUpdate_ResetMax(row, today) ==
  [attempted |-> row.attempted + 1, correct |-> row.correct,
   score |-> row.score - 1, current_streak |-> 0,
   max_streak |-> 0, last_activity_date |-> today]

\* ON CONFLICT(user_id) DO UPDATE SET ... of the wrong branch
StatsWrongUpdate(row, today) ==
  [attempted |-> row.attempted + 1, correct |-> row.correct,
   score |-> row.score - 1, current_streak |-> 0,
   max_streak |-> row.max_streak, last_activity_date |-> today]

\* statement 2 of update_user_stats as one atomic upsert
StatsUpsert(tbl, user_id, is_correct, today) ==
  IF is_correct
  THEN IF user_id \in DOMAIN tbl
       THEN [tbl EXCEPT ![user_id] = StatsCorrectUpdate(@, today)]
       ELSE Put(tbl, user_id, StatsCorrectInsert(today))
  ELSE IF user_id \in DOMAIN tbl
       THEN [tbl EXCEPT ![user_id] = StatsWrongUpdate(@, today)]
       ELSE Put(tbl, user_id, StatsWrongInsert(today))

\* mutant: a wrong answer costs nothing
score_change_NoPenalty(is_correct) == IF is_correct THEN 4 ELSE 0

score_change(is_correct) == IF is_correct THEN 4 ELSE 0 - 1

correct_inc(is_correct) == IF is_correct THEN 1 ELSE 0

\* mutant: ON CONFLICT(user_id), the day is not part of the key that is
\* looked up, the user's earliest row is updated
DailyUpsert_AnyDay(tbl, user_id, today, is_correct) ==
  LET mine == {k \in DOMAIN tbl : k[1] = user_id}
      k0   == CHOOSE k \in mine : \A j \in mine : k[2] <= j[2]
  IN  IF mine # {}
      THEN [tbl EXCEPT ![k0] = [attempted |-> @.attempted + 1,
                                correct |-> @.correct + correct_inc(is_correct)]]
      ELSE Put(tbl, <<user_id, today>>,
               [attempted |-> 1, correct |-> correct_inc(is_correct)])

\* statement 3: INSERT INTO daily_stats ... ON CONFLICT(user_id, day)
DailyUpsert(tbl, user_id, today, is_correct) ==
  LET k == <<user_id, today>> IN
  IF k \in DOMAIN tbl
  THEN [tbl EXCEPT ![k] = [attempted |-> @.attempted + 1,
                           correct |-> @.correct + correct_inc(is_correct)]]
  ELSE Put(tbl, k, [attempted |-> 1, correct |-> correct_inc(is_correct)])

\* statement 4: INSERT INTO group_stats ... ON CONFLICT(user_id, chat_id)
GroupUpsert(tbl, chat_id, user_id, is_correct) ==
  LET k == <<chat_id, user_id>> IN
  IF k \in DOMAIN tbl
  THEN [tbl EXCEPT ![k] = [attempted |-> @.attempted + 1,
                           correct |-> @.correct + correct_inc(is_correct),
                           score |-> @.score + score_change(is_correct)]]
  ELSE Put(tbl, k, [attempted |-> 1, correct |-> correct_inc(is_correct),
                    score |-> score_change(is_correct)])

\* COALESCE(excluded.x, x)
Coalesce(a, b) == IF a # NULL THEN a ELSE b

\* mutant: the upsert has no key, the names go into every profile row
UsersUpsertCoalesce_AllRows(tbl, user_id, username, first_name) ==
  [k \in (DOMAIN tbl) \cup {user_id} |->
     IF k \in DOMAIN tbl
     THEN [username |-> Coalesce(username, tbl[k].username),
           first_name |-> Coalesce(first_name, tbl[k].first_name)]
     ELSE [username |-> username, first_name |-> first_name]]

\* statement 1 of update_user_stats: null-preserving profile upsert
UsersUpsertCoalesce(tbl, user_id, username, first_name) ==
  IF user_id \in DOMAIN tbl
  THEN [tbl EXCEPT ![user_id] =
          [username |-> Coalesce(username, @.username),
           first_name |-> Coalesce(first_name, @.first_name)]]
  ELSE Put(tbl, user_id, [username |-> username, first_name |-> first_name])

\* the profile upsert of handle_poll_answer: overwrites both fields
UsersUpsertOverwrite(tbl, user_id, username, first_name) ==
  Put(tbl, user_id, [username |-> username, first_name |-> first_name])

\* INSERT OR IGNORE INTO users of /start
UsersInsertOrIgnore(tbl, user_id, username, first_name) ==
  IF user_id \in DOMAIN tbl THEN tbl
  ELSE Put(tbl, user_id, [username |-> username, first_name |-> first_name])

\* mutant: INSERT OR REPLACE INTO active_polls
ActivePollsInsert_Replace(tbl, poll_id, chat_id, c_idx) ==
  [ok |-> TRUE,
   tbl |-> Put(tbl, poll_id, [chat_id |-> chat_id, correct_option_id |-> c_idx])]

\* INSERT INTO active_polls VALUES (?,?,?) on a table whose poll_id is the
\* PRIMARY KEY: a second row with the same key raises and changes nothing
ActivePollsInsert(tbl, poll_id, chat_id, c_idx) ==
  IF poll_id \in DOMAIN tbl
  THEN [ok |-> FALSE, tbl |-> tbl]
  ELSE [ok |-> TRUE,
        tbl |-> Put(tbl, poll_id,
                    [chat_id |-> chat_id, correct_option_id |-> c_idx])]

\* ---------------------------------------------------------------- state
VARIABLES
  users,        \* users table:        user_id -> [username, first_name]
  stats,        \* stats table:        user_id -> global row
  daily_stats,  \* daily_stats table:  <<user_id, day>> -> row
  group_stats,  \* group_stats table:  <<chat_id, user_id>> -> row
  active_polls, \* active_polls table: poll_id -> [chat_id, correct_option_id]
  questions,    \* questions table:    id -> correct marker
  next_qid,     \* AUTOINCREMENT sequence of questions.id
  chats,        \* chats table: set of registered non-private chat ids
  settings,     \* settings table: key -> value
  clock,        \* datetime.now() as a calendar day
  next_poll,    \* next poll id the platform hands out
  ans,          \* handle_poll_answer invocations: handler -> frame
  quiz,         \* the send_random_quiz invocation in flight
  job,          \* the auto_quiz_job run in flight
  calls,        \* log per user: update_user_stats calls entered (n), those
                \* with is_correct (c), whether two ever overlapped (par)
  scored,       \* log: <<poll_id, user_id>> pairs already scored
  served,       \* log: per question id, dispatch operations that sent it
  errors,       \* log: number of store errors raised so far
  admins,       \* admins table: set of user ids
  compliments,  \* compliments table: id -> [type, text]
  next_cid,     \* AUTOINCREMENT sequence of compliments.id
  cmd,          \* log: the last admin command handled, its sender and reply
  imp           \* the addquestion invocation that awaits its document

vars == <<users, stats, daily_stats, group_stats, active_polls, questions,
          next_qid, chats, settings, clock, next_poll, ans, quiz, job,
          calls, scored, served, errors, admins, compliments, next_cid, cmd,
          imp>>

admin_state == <<admins, compliments, next_cid, cmd, imp>>

store == <<users, stats, daily_stats, group_stats, active_polls, questions,
           next_qid, chats, settings>>

IdleAns == [pc |-> "idle", poll_id |-> 0, user_id |-> 0, option |-> 0,
            username |-> NULL, first_name |-> NULL, chat_id |-> 0,
            is_correct |-> FALSE, today |-> 0]

IdleQuiz == [pc |-> "idle", chat_id |-> 0, q |-> 0, c_idx |-> 0, poll_id |-> 0,
             notice |-> ""]

\* the handler is about to await update.message.reply_text(notice)
ReplyQuiz(notice) == [IdleQuiz EXCEPT !.pc = "reply", !.notice = notice]

\* no admin command handled yet
NoCmd == [user |-> 0, name |-> "", reply |-> ""]

\* what a message or a .txt file holds for /addquestion: its blocks and,
\* when it holds none, whether it still holds white space
NoContent == [blank |-> FALSE, entries |-> <<>>]

IdleImport == [pc |-> "idle", user_id |-> 0, content |-> NoContent]

\* the defaults init_db() inserts into settings (database.py 122-129)
SettingsDefaults ==
  [footer_text |-> "NEETIQBot", footer_enabled |-> "1",
   autoquiz_enabled |-> "0", autoquiz_interval |-> "30",
   compliments_enabled |-> "1"]

IdleJob == [pc |-> "idle", q |-> 0, c_idx |-> 0, todo |-> <<>>,
            poll_id |-> 0, sent |-> FALSE]

\* init_db(): empty tables, the settings defaults, no handler running
Init ==
  /\ users = EmptyTable
  /\ stats = EmptyTable
  /\ daily_stats = EmptyTable
  /\ group_stats = EmptyTable
  /\ active_polls = EmptyTable
  /\ questions = EmptyTable
  /\ next_qid = 1
  /\ chats = {}
  /\ settings = SettingsDefaults
  /\ clock = 1
  /\ next_poll = 1
  /\ ans = [h \in Handlers |-> IdleAns]
  /\ quiz = IdleQuiz
  /\ job = IdleJob
  /\ calls = [u \in Users |-> [n |-> 0, c |-> 0, par |-> FALSE]]
  /\ scored = {}
  /\ served = [q \in 1..MaxQuestions |-> 0]
  /\ errors = 0
  /\ admins = {}
  /\ compliments = EmptyTable
  /\ next_cid = 1
  /\ cmd = NoCmd
  /\ imp = IdleImport

\* -------------------------------------------------- handle_poll_answer
TotalCalls == SumField(calls, Users, "n")

\* mutant: the `if not poll_data: return` is missing; an answer to an
\* untracked poll is scored against option 0 with no chat
RunPollAnswer_NoReturn(n, poll_id, user_id, option, username, first_name) ==
  LET tracked    == poll_id \in DOMAIN active_polls
      done(k)    == n >= k
      chat_id    == IF tracked THEN active_polls[poll_id].chat_id ELSE 0
      is_correct == IF tracked
                    THEN option = active_polls[poll_id].correct_option_id
                    ELSE option = 0
      users1     == IF done(1)
                    THEN UsersUpsertOverwrite(users, user_id, username, first_name)
                    ELSE users
  IN  /\ users' = IF done(3)
                  THEN UsersUpsertCoalesce(users1, user_id, username, first_name)
                  ELSE users1
      /\ stats' = IF done(4) THEN StatsUpsert(stats, user_id, is_correct, clock)
                  ELSE stats
      /\ daily_stats' = IF done(5)
                        THEN DailyUpsert(daily_stats, user_id, clock, is_correct)
                        ELSE daily_stats
      /\ group_stats' = IF done(6) /\ chat_id # 0
                        THEN GroupUpsert(group_stats, chat_id, user_id, is_correct)
                        ELSE group_stats
      /\ calls' = IF done(3)
                  THEN [calls EXCEPT ![user_id].n = @ + 1,
                                     ![user_id].c = @ + correct_inc(is_correct)]
                  ELSE calls
      /\ scored' = IF done(4) THEN scored \cup {<<poll_id, user_id>>} ELSE scored

\* mutant: correctness is judged against option 0, not against the
\* tracking entry's correct_option_id
RunPollAnswer_FirstOption(n, poll_id, user_id, option, username, first_name) ==
  LET tracked    == poll_id \in DOMAIN active_polls
      done(k)    == n >= k /\ (k <= 2 \/ tracked)
      chat_id    == active_polls[poll_id].chat_id
      is_correct == (option = 0)
      users1     == IF done(1)
                    THEN UsersUpsertOverwrite(users, user_id, username, first_name)
                    ELSE users
  IN  /\ users' = IF done(3)
                  THEN UsersUpsertCoalesce(users1, user_id, username, first_name)
                  ELSE users1
      /\ stats' = IF done(4) THEN StatsUpsert(stats, user_id, is_correct, clock)
                  ELSE stats
      /\ daily_stats' = IF done(5)
                        THEN DailyUpsert(daily_stats, user_id, clock, is_correct)
                        ELSE daily_stats
      /\ group_stats' = IF done(6) /\ chat_id # 0
                        THEN GroupUpsert(group_stats, chat_id, user_id, is_correct)
                        ELSE group_stats
      /\ calls' = IF done(3)
                  THEN [calls EXCEPT ![user_id].n = @ + 1,
                                     ![user_id].c = @ + correct_inc(is_correct)]
                  ELSE calls
      /\ scored' = IF done(4) THEN scored \cup {<<poll_id, user_id>>} ELSE scored

\* The statements of one handle_poll_answer run, in program order:
\*   1 overwriting profile upsert     (main.py 172-178)
\*   2 SELECT of the tracking entry   (main.py 183), return if none
\*   3..6 update_user_stats           (database.py 146-198)
\* RunPollAnswer executes the first n of them from the current state; n = 6
\* is a complete run, n < 6 a run whose statement n+1 raised.
RunPollAnswer(n, poll_id, user_id, option, username, first_name) ==
  LET tracked    == poll_id \in DOMAIN active_polls
      done(k)    == n >= k /\ (k <= 2 \/ tracked)
      chat_id    == active_polls[poll_id].chat_id
      is_correct == (option = active_polls[poll_id].correct_option_id)
      users1     == IF done(1)
                    THEN UsersUpsertOverwrite(users, user_id, username, first_name)
                    ELSE users
  IN  /\ users' = IF done(3)
                  THEN UsersUpsertCoalesce(users1, user_id, username, first_name)
                  ELSE users1
      /\ stats' = IF done(4) THEN StatsUpsert(stats, user_id, is_correct, clock)
                  ELSE stats
      /\ daily_stats' = IF done(5)
                        THEN DailyUpsert(daily_stats, user_id, clock, is_correct)
                        ELSE daily_stats
      /\ group_stats' = IF done(6) /\ chat_id # 0
                        THEN GroupUpsert(group_stats, chat_id, user_id, is_correct)
                        ELSE group_stats
      /\ calls' = IF done(3)
                  THEN [calls EXCEPT ![user_id].n = @ + 1,
                                     ![user_id].c = @ + correct_inc(is_correct)]
                  ELSE calls
      /\ scored' = IF done(4) THEN scored \cup {<<poll_id, user_id>>} ELSE scored

\* one answer event handled to completion
HandlePollAnswer(poll_id, user_id, option, username, first_name) ==
  /\ poll_id < next_poll                    \* only polls that were sent
  /\ TotalCalls < MaxAnswers
  /\ RunPollAnswer(6, poll_id, user_id, option, username, first_name)
  /\ UNCHANGED <<active_polls, questions, next_qid, chats, settings, clock,
                 next_poll, ans, quiz, job, served, errors, admin_state>>

\* one answer event whose statement n+1 raises a store error: the handler
\* has no try/except, the exception ends it
HandlePollAnswer_StoreError(n, poll_id, user_id, option, username, first_name) ==
  /\ poll_id < next_poll
  /\ TotalCalls < MaxAnswers
  /\ n \in 0..5
  /\ n >= 2 => poll_id \in DOMAIN active_polls
  /\ errors < MaxErrors
  /\ errors' = errors + 1
  /\ RunPollAnswer(n, poll_id, user_id, option, username, first_name)
  /\ UNCHANGED <<active_polls, questions, next_qid, chats, settings, clock,
                 next_poll, ans, quiz, job, served, admin_state>>

\* ------------------------- handle_poll_answer, one statement per step
Resolving == {h \in Handlers : ans[h].pc = "resolve"}

\* the handlers that are inside update_user_stats for this user
Updating(user_id) ==
  {h \in Handlers : /\ ans[h].pc \in {"users", "stats", "daily", "group"}
                    /\ ans[h].user_id = user_id}

\* an answer event arrives and the handler runs its first statement, the
\* overwriting profile upsert (main.py 172-178)
HandlePollAnswer_SyncUser(h, poll_id, user_id, option, username, first_name) ==
  /\ ans[h].pc = "idle"
  /\ poll_id < next_poll
  /\ TotalCalls + Cardinality(Resolving) < MaxConcCalls
  /\ users' = UsersUpsertOverwrite(users, user_id, username, first_name)
  /\ ans' = [ans EXCEPT ![h] = [IdleAns EXCEPT !.pc = "resolve",
                 !.poll_id = poll_id, !.user_id = user_id, !.option = option,
                 !.username = username, !.first_name = first_name]]
  /\ UNCHANGED <<stats, daily_stats, group_stats, active_polls, questions,
                 next_qid, chats, settings, clock, next_poll, quiz, job,
                 calls, scored, served, errors, admin_state>>

\* SELECT * FROM active_polls WHERE poll_id = ? ; return when there is no
\* row, else enter update_user_stats, which reads the clock first
HandlePollAnswer_Resolve(h) ==
  /\ ans[h].pc = "resolve"
  /\ IF ans[h].poll_id \notin DOMAIN active_polls
     THEN /\ ans' = [ans EXCEPT ![h] = IdleAns]
          /\ UNCHANGED calls
     ELSE LET poll_data == active_polls[ans[h].poll_id]
              is_correct == (ans[h].option = poll_data.correct_option_id)
          IN  /\ ans' = [ans EXCEPT ![h].pc = "users",
                                    ![h].chat_id = poll_data.chat_id,
                                    ![h].is_correct = is_correct,
                                    ![h].today = clock]
              /\ calls' = [calls EXCEPT
                             ![ans[h].user_id].n = @ + 1,
                             ![ans[h].user_id].c = @ + correct_inc(is_correct),
                             ![ans[h].user_id].par = @ \/ Updating(ans[h].user_id) # {}]
  /\ UNCHANGED <<store, clock, next_poll, quiz, job, scored, served, errors,
                 admin_state>>

\* update_user_stats statement 1 (database.py 146-152)
UpdateUserStats_Users(h) ==
  /\ ans[h].pc = "users"
  /\ users' = UsersUpsertCoalesce(users, ans[h].user_id, ans[h].username,
                                  ans[h].first_name)
  /\ ans' = [ans EXCEPT ![h].pc = "stats"]
  /\ UNCHANGED <<stats, daily_stats, group_stats, active_polls, questions,
                 next_qid, chats, settings, clock, next_poll, quiz, job,
                 calls, scored, served, errors, admin_state>>

\* update_user_stats statement 2 (database.py 155-178)
UpdateUserStats_Stats(h) ==
  /\ ans[h].pc = "stats"
  /\ stats' = StatsUpsert(stats, ans[h].user_id, ans[h].is_correct, ans[h].today)
  /\ scored' = scored \cup {<<ans[h].poll_id, ans[h].user_id>>}
  /\ ans' = [ans EXCEPT ![h].pc = "daily"]
  /\ UNCHANGED <<users, daily_stats, group_stats, active_polls, questions,
                 next_qid, chats, settings, clock, next_poll, quiz, job,
                 calls, served, errors, admin_state>>

\* update_user_stats statement 3 (database.py 181-187)
UpdateUserStats_Daily(h) ==
  /\ ans[h].pc = "daily"
  /\ daily_stats' = DailyUpsert(daily_stats, ans[h].user_id, ans[h].today,
                                ans[h].is_correct)
  /\ ans' = [ans EXCEPT ![h].pc = "group"]
  /\ UNCHANGED <<users, stats, group_stats, active_polls, questions,
                 next_qid, chats, settings, clock, next_poll, quiz, job,
                 calls, scored, served, errors, admin_state>>

\* update_user_stats statement 4 (database.py 190-198), guarded by
\* `if chat_id:`; the handler then only reads compliments and returns
UpdateUserStats_Group(h) ==
  /\ ans[h].pc = "group"
  /\ group_stats' = IF ans[h].chat_id # 0
                    THEN GroupUpsert(group_stats, ans[h].chat_id,
                                     ans[h].user_id, ans[h].is_correct)
                    ELSE group_stats
  /\ ans' = [ans EXCEPT ![h] = IdleAns]
  /\ UNCHANGED <<users, stats, daily_stats, active_polls, questions,
                 next_qid, chats, settings, clock, next_poll, quiz, job,
                 calls, scored, served, errors, admin_state>>

\* ---------------------------------------------------- send_random_quiz
\* mutant: the `if not q` test is dropped, the handler goes on to send
SendRandomQuiz_Select_NoEmptyCheck(chat_id) ==
  /\ quiz.pc = "idle"
  /\ IF questions = EmptyTable
     THEN quiz' = [IdleQuiz EXCEPT !.pc = "send", !.chat_id = chat_id]
     ELSE \E id \in DOMAIN questions :
            quiz' = [IdleQuiz EXCEPT !.pc = "send", !.chat_id = chat_id,
                       !.q = id, !.c_idx = CorrectIdx(questions[id])]
  /\ UNCHANGED <<store, clock, next_poll, ans, job, calls, scored, served, errors,
                 admin_state>>

\* SELECT * FROM questions ORDER BY RANDOM() LIMIT 1 (main.py 119-136);
\* on an empty table the handler replies "Database Empty!" and returns
SendRandomQuiz_Select(chat_id) ==
  /\ quiz.pc = "idle"
  /\ IF questions = EmptyTable
     THEN quiz' = ReplyQuiz("empty")
     ELSE \E id \in DOMAIN questions :
            quiz' = [IdleQuiz EXCEPT !.pc = "send", !.chat_id = chat_id,
                       !.q = id, !.c_idx = CorrectIdx(questions[id])]
  /\ UNCHANGED <<store, clock, next_poll, ans, job, calls, scored, served, errors,
                 admin_state>>

\* await context.bot.send_poll(...) (main.py 140-148): the platform
\* answers with a poll whose id is poll_id, or the send raises into the
\* except clause (main.py 158-160)
SendRandomQuiz_SendPoll(ok, poll_id) ==
  /\ quiz.pc = "send"
  /\ IF ok
     THEN /\ next_poll <= MaxPolls
          /\ quiz' = [quiz EXCEPT !.pc = "track", !.poll_id = poll_id]
          /\ next_poll' = next_poll + 1
          /\ served' = [served EXCEPT ![quiz.q] = @ + 1]
     ELSE /\ quiz' = ReplyQuiz("failed")
          /\ UNCHANGED <<next_poll, served>>
  /\ UNCHANGED <<store, clock, ans, job, calls, scored, errors, admin_state>>

\* the platform hands out a fresh poll id with every poll
SendRandomQuiz_Send(ok) == SendRandomQuiz_SendPoll(ok, next_poll)

\* INSERT INTO active_polls VALUES (?,?,?) (main.py 153); a duplicate
\* primary key raises into the except clause (main.py 158-160)
SendRandomQuiz_Track ==
  /\ quiz.pc = "track"
  /\ LET res == ActivePollsInsert(active_polls, quiz.poll_id, quiz.chat_id,
                                  quiz.c_idx)
     IN  /\ active_polls' = res.tbl
         /\ quiz' = IF res.ok THEN [quiz EXCEPT !.pc = "delete"]
                    ELSE [ReplyQuiz("failed")
                            EXCEPT !.poll_id = quiz.poll_id,
                                   !.c_idx = quiz.c_idx]
  /\ UNCHANGED <<users, stats, daily_stats, group_stats, questions, next_qid,
                 chats, settings, clock, next_poll, ans, job, calls, scored,
                 served, errors, admin_state>>

\* mutant: the DELETE is missing, the question stays in the table
SendRandomQuiz_Delete_Keep ==
  /\ quiz.pc = "delete"
  /\ questions' = questions
  /\ quiz' = IdleQuiz
  /\ UNCHANGED <<users, stats, daily_stats, group_stats, active_polls,
                 next_qid, chats, settings, clock, next_poll, ans, job,
                 calls, scored, served, errors, admin_state>>

\* DELETE FROM questions WHERE id = ? (main.py 156)
SendRandomQuiz_Delete ==
  /\ quiz.pc = "delete"
  /\ questions' = Del(questions, quiz.q)
  /\ quiz' = IdleQuiz
  /\ UNCHANGED <<users, stats, daily_stats, group_stats, active_polls,
                 next_qid, chats, settings, clock, next_poll, ans, job,
                 calls, scored, served, errors, admin_state>>

\* await update.message.reply_text(...) of the empty-table return
\* (main.py 127-130) or of the except clause (main.py 160)
SendRandomQuiz_Reply ==
  /\ quiz.pc = "reply"
  /\ quiz' = IdleQuiz
  /\ UNCHANGED <<store, clock, next_poll, ans, job, calls, scored, served, errors,
                 admin_state>>

\* -------------------------------------------------------- auto_quiz_job
\* SELECT value FROM settings WHERE key='autoquiz_enabled' (main.py 636);
\* with '0' the job returns at once
AutoQuizJob_Status ==
  /\ job.pc = "idle"
  /\ settings.autoquiz_enabled # "0"
  /\ job' = [IdleJob EXCEPT !.pc = "select"]
  /\ UNCHANGED <<store, clock, next_poll, ans, quiz, calls, scored, served, errors,
                 admin_state>>

\* SELECT * FROM questions ORDER BY RANDOM() LIMIT 1 (main.py 640-643)
AutoQuizJob_Select ==
  /\ job.pc = "select"
  /\ IF questions = EmptyTable
     THEN job' = IdleJob
     ELSE \E id \in DOMAIN questions :
            job' = [job EXCEPT !.pc = "chats", !.q = id,
                               !.c_idx = CorrectIdx(questions[id])]
  /\ UNCHANGED <<store, clock, next_poll, ans, quiz, calls, scored, served, errors,
                 admin_state>>

AfterChat(todo) == IF todo = <<>> THEN "delete" ELSE "send"

\* SELECT chat_id FROM chats WHERE type != 'private' (main.py 646)
AutoQuizJob_Chats ==
  /\ job.pc = "chats"
  /\ job' = [job EXCEPT !.todo = AscendingSeq(chats),
                        !.pc = AfterChat(AscendingSeq(chats))]
  /\ UNCHANGED <<store, clock, next_poll, ans, quiz, calls, scored, served, errors,
                 admin_state>>

\* one iteration's send_poll (main.py 653-663); a failed send continues
\* with the next chat
AutoQuizJob_SendPoll(ok, poll_id) ==
  /\ job.pc = "send"
  /\ IF ok
     THEN /\ next_poll <= MaxPolls
          /\ job' = [job EXCEPT !.pc = "track", !.poll_id = poll_id,
                                !.sent = TRUE]
          /\ next_poll' = next_poll + 1
          /\ served' = IF job.sent THEN served
                       ELSE [served EXCEPT ![job.q] = @ + 1]
     ELSE /\ job' = [job EXCEPT !.todo = Tail(job.todo),
                                !.pc = AfterChat(Tail(job.todo))]
          /\ UNCHANGED <<next_poll, served>>
  /\ UNCHANGED <<store, clock, ans, quiz, calls, scored, errors, admin_state>>

\* the platform hands out a fresh poll id with every poll
AutoQuizJob_Send(ok) == AutoQuizJob_SendPoll(ok, next_poll)

\* INSERT INTO active_polls VALUES (?,?,?) (main.py 665-666); an error is
\* swallowed by `except Exception: continue`
AutoQuizJob_Track ==
  /\ job.pc = "track"
  /\ active_polls' = ActivePollsInsert(active_polls, job.poll_id,
                                       Head(job.todo), job.c_idx).tbl
  /\ job' = [job EXCEPT !.todo = Tail(job.todo), !.poll_id = 0,
                        !.pc = AfterChat(Tail(job.todo))]
  /\ UNCHANGED <<users, stats, daily_stats, group_stats, questions, next_qid,
                 chats, settings, clock, next_poll, ans, quiz, calls, scored,
                 served, errors, admin_state>>

\* mutant: the DELETE has no WHERE clause
AutoQuizJob_Delete_All ==
  /\ job.pc = "delete"
  /\ questions' = EmptyTable
  /\ job' = IdleJob
  /\ UNCHANGED <<users, stats, daily_stats, group_stats, active_polls,
                 next_qid, chats, settings, clock, next_poll, ans, quiz,
                 calls, scored, served, errors, admin_state>>

\* DELETE FROM questions WHERE id = ? (main.py 673-674)
AutoQuizJob_Delete ==
  /\ job.pc = "delete"
  /\ questions' = Del(questions, job.q)
  /\ job' = IdleJob
  /\ UNCHANGED <<users, stats, daily_stats, group_stats, active_polls,
                 next_qid, chats, settings, clock, next_poll, ans, quiz,
                 calls, scored, served, errors, admin_state>>

\* ------------------------------------------------- update_user_stats
\* database.update_user_stats as one operation: its four statements in
\* program order with nothing in between
UpdateUserStats(user_id, chat_id, is_correct, username, first_name) ==
  /\ SumField(stats, DOMAIN stats, "attempted") < MaxRecorded
  /\ users' = UsersUpsertCoalesce(users, user_id, username, first_name)
  /\ stats' = StatsUpsert(stats, user_id, is_correct, clock)
  /\ daily_stats' = DailyUpsert(daily_stats, user_id, clock, is_correct)
  /\ group_stats' = IF chat_id # 0
                    THEN GroupUpsert(group_stats, chat_id, user_id, is_correct)
                    ELSE group_stats
  /\ UNCHANGED <<active_polls, questions, next_qid, chats, settings, clock,
                 next_poll, ans, quiz, job, calls, scored, served, errors,
                 admin_state>>

\* mirror_messages, the except branch of one target (main.py 846-853):
\* copy_message raised Forbidden, the target is removed from users and chats
MirrorRemove(target_id) ==
  /\ target_id \in (DOMAIN users) \cup chats
  /\ users' = Del(users, target_id)
  /\ chats' = chats \ {target_id}
  /\ UNCHANGED <<stats, daily_stats, group_stats, active_polls, questions,
                 next_qid, settings, clock, next_poll, ans, quiz, job,
                 calls, scored, served, errors, admin_state>>

\* ------------------------------------------------ get_leaderboard_data
\* mutant: the `!= ''` test on the username is missing
DisplayName_NoEmptyTest(tbl, user_id) ==
  LET joined     == user_id \in DOMAIN tbl
      username   == IF joined THEN tbl[user_id].username ELSE NULL
      first_name == IF joined THEN tbl[user_id].first_name ELSE NULL
      at_name    == IF username # NULL THEN "@" \o username ELSE NULL
  IN  Coalesce(at_name, Coalesce(first_name, "Participant " \o ToString(user_id)))

\* name_sql over the LEFT JOIN with users (database.py 203-209): a stats
\* row without users row sees NULL in both columns
DisplayName(tbl, user_id) ==
  LET joined     == user_id \in DOMAIN tbl
      username   == IF joined THEN tbl[user_id].username ELSE NULL
      first_name == IF joined THEN tbl[user_id].first_name ELSE NULL
      at_name    == IF username # NULL /\ username # ""
                    THEN "@" \o username ELSE NULL
  IN  Coalesce(at_name, Coalesce(first_name, "Participant " \o ToString(user_id)))

\* the orders in which a scan can meet the rows of a table
RECURSIVE Scans(_)
Scans(keys) ==
  IF keys = {} THEN {<<>>}
  ELSE UNION {{<<k>> \o rest : rest \in Scans(keys \ {k})} : k \in keys}

\* mutant: ORDER BY score ASC
RECURSIVE InsertByScore_Asc(_, _)
InsertByScore_Asc(row, sorted) ==
  IF sorted = <<>> THEN <<row>>
  ELSE IF Head(sorted).score > row.score THEN <<row>> \o sorted
  ELSE <<Head(sorted)>> \o InsertByScore_Asc(row, Tail(sorted))

\* ORDER BY score DESC: a row goes before the first row of lower score
RECURSIVE InsertByScore(_, _)
InsertByScore(row, sorted) ==
  IF sorted = <<>> THEN <<row>>
  ELSE IF Head(sorted).score < row.score THEN <<row>> \o sorted
  ELSE <<Head(sorted)>> \o InsertByScore(row, Tail(sorted))

RECURSIVE OrderByScoreDesc(_)
OrderByScoreDesc(rows) ==
  IF rows = <<>> THEN <<>>
  ELSE InsertByScore(rows[Len(rows)],
                     OrderByScoreDesc(SubSeq(rows, 1, Len(rows) - 1)))

\* LIMIT ?
SqlLimit(rows, limit) ==
  IF limit < Len(rows) THEN SubSeq(rows, 1, limit) ELSE rows

\* get_leaderboard_data(chat_id, limit): the row lists the query can
\* return, one per scan order (rows of equal score come in scan order);
\* columns display_name, attempted, correct, score
\* mutant: the group query without its WHERE gs.chat_id = ? filter
get_leaderboard_data_NoFilter(chat_id, limit) ==
  LET keys == IF chat_id # 0 THEN DOMAIN group_stats ELSE DOMAIN stats
      row(k) == IF chat_id # 0
                THEN [display_name |-> DisplayName(users, k[2]),
                      attempted |-> group_stats[k].attempted,
                      correct |-> group_stats[k].correct,
                      score |-> group_stats[k].score]
                ELSE [display_name |-> DisplayName(users, k),
                      attempted |-> stats[k].attempted,
                      correct |-> stats[k].correct,
                      score |-> stats[k].score]
  IN  {SqlLimit(OrderByScoreDesc([i \in 1..Len(scan) |-> row(scan[i])]), limit) :
         scan \in Scans(keys)}

get_leaderboard_data(chat_id, limit) ==
  LET keys == IF chat_id # 0
              THEN {k \in DOMAIN group_stats : k[1] = chat_id}
              ELSE DOMAIN stats
      row(k) == IF chat_id # 0
                THEN [display_name |-> DisplayName(users, k[2]),
                      attempted |-> group_stats[k].attempted,
                      correct |-> group_stats[k].correct,
                      score |-> group_stats[k].score]
                ELSE [display_name |-> DisplayName(users, k),
                      attempted |-> stats[k].attempted,
                      correct |-> stats[k].correct,
                      score |-> stats[k].score]
  IN  {SqlLimit(OrderByScoreDesc([i \in 1..Len(scan) |-> row(scan[i])]), limit) :
         scan \in Scans(keys)}

\* ------------------------------------------------------------- mystats
\* mutant: the rank counts the rows that score at least as much
CountPlusOne_AtLeast(scores, score) ==
  Cardinality({k \in DOMAIN scores : scores[k] >= score}) + 1

\* SELECT COUNT(*) + 1 FROM ... WHERE score > ? over the rows in scores
CountPlusOne(scores, score) ==
  Cardinality({k \in DOMAIN scores : scores[k] > score}) + 1

\* the two ranks /mystats reports (main.py 259-271); both comparisons take
\* s['score'], the score of the requester's row in the stats table
mystats(user_id, chat_id, is_private) ==
  LET found == user_id \in DOMAIN stats
      s     == stats[user_id]
      in_chat == {k \in DOMAIN group_stats : k[1] = chat_id}
  IN  [global_rank |->
         IF found
         THEN CountPlusOne([k \in DOMAIN stats |-> stats[k].score], s.score)
         ELSE "N/A",
       group_rank |->
         IF ~is_private /\ found
         THEN CountPlusOne([k \in in_chat |-> group_stats[k].score], s.score)
         ELSE "N/A"]

\* ------------------------------------------------- commands and clock
\* /start (main.py 71-84): INSERT OR IGNORE the user and, outside a
\* private chat, the chat; group chats are the ones with a negative id
Start(user_id, chat_id, username, first_name) ==
  /\ users' = UsersInsertOrIgnore(users, user_id, username, first_name)
  /\ chats' = IF chat_id < 0 THEN chats \cup {chat_id} ELSE chats
  /\ UNCHANGED <<stats, daily_stats, group_stats, active_polls, questions,
                 next_qid, settings, clock, next_poll, ans, quiz, job,
                 calls, scored, served, errors, admin_state>>

\* mutant: the marker is stored without the validation
AddQuestion_NoValidation(raw) ==
  /\ next_qid <= MaxQuestions
  /\ questions' = Put(questions, next_qid, Upper(raw))
  /\ next_qid' = next_qid + 1
  /\ UNCHANGED <<users, stats, daily_stats, group_stats, active_polls,
                 chats, settings, clock, next_poll, ans, quiz, job,
                 calls, scored, served, errors, admin_state>>

\* /addquestion with one block whose answer-key line is raw
\* (main.py 439-459): the key is upper-cased, validated and stored
AddQuestion(raw) ==
  /\ next_qid <= MaxQuestions
  /\ Upper(raw) \in ValidMarkers
  /\ questions' = Put(questions, next_qid, Upper(raw))
  /\ next_qid' = next_qid + 1
  /\ UNCHANGED <<users, stats, daily_stats, group_stats, active_polls,
                 chats, settings, clock, next_poll, ans, quiz, job,
                 calls, scored, served, errors, admin_state>>

\* /autoquiz on|off (main.py 616-622)
Autoquiz(arg) ==
  /\ settings' = [settings EXCEPT !.autoquiz_enabled =
                    IF arg = "on" THEN "1" ELSE "0"]
  /\ UNCHANGED <<users, stats, daily_stats, group_stats, active_polls,
                 questions, next_qid, chats, clock, next_poll, ans, quiz,
                 job, calls, scored, served, errors, admin_state>>

\* midnight passes
Tick ==
  /\ clock < MaxDay
  /\ clock' = clock + 1
  /\ UNCHANGED <<store, next_poll, ans, quiz, job, calls, scored, served, errors,
                 admin_state>>

\* --------------------------------------------------------- store errors
\* the INSERT or the DELETE of send_random_quiz raises (main.py 151-160):
\* the except clause logs, replies and the handler ends
SendRandomQuiz_StoreError ==
  /\ quiz.pc \in {"track", "delete"}
  /\ errors < MaxErrors
  /\ errors' = errors + 1
  /\ quiz' = ReplyQuiz("failed")
  /\ UNCHANGED <<store, clock, next_poll, ans, job, calls, scored, served,
                 admin_state>>

\* a statement of auto_quiz_job raises: the INSERT inside the loop is
\* swallowed by `except Exception: continue` (main.py 665-670), any other
\* statement ends the job
AutoQuizJob_StoreError ==
  /\ job.pc \in {"select", "chats", "track", "delete"}
  /\ job' = IF job.pc = "track"
            THEN [job EXCEPT !.todo = Tail(job.todo), !.poll_id = 0,
                             !.pc = AfterChat(Tail(job.todo))]
            ELSE IdleJob
  /\ errors < MaxErrors
  /\ errors' = errors + 1
  /\ UNCHANGED <<store, clock, next_poll, ans, quiz, calls, scored, served,
                 admin_state>>

\* ------------------------------------------------------- admin commands
\* who sends commands: the owner and the other users
Senders == {OWNER_ID} \cup Users

\* str.strip() on the answer-key lines used here
Strip(m) == CASE m = " b " -> "b" [] m = "d " -> "d" [] OTHER -> m

\* str.lower() on the command words used here
Lower(a) == CASE a = "ON" -> "on" [] a = "OFF" -> "off"
              [] a = "Wrong" -> "wrong" [] OTHER -> a

\* int(s): whether it parses, and the value
IsInt(s) == s \in {"1", "+5"}
IntOf(s) == CASE s = "1" -> 1 [] s = "+5" -> 5

\* " ".join(args)
RECURSIVE Join(_)
Join(args) == IF args = <<>> THEN ""
              ELSE IF Len(args) = 1 THEN args[1]
              ELSE args[1] \o " " \o Join(Tail(args))

\* mutant: everybody passes the admin check
is_admin_Anyone(user_id) == TRUE

\* is_admin (main.py 61-67)
is_admin(user_id) == user_id = OWNER_ID \/ user_id \in admins

\* what no admin command writes
rest == <<users, stats, daily_stats, group_stats, active_polls, chats, clock,
          next_poll, ans, quiz, job, calls, scored, served, errors>>

Replied(user_id, name, reply) ==
  cmd' = [user |-> user_id, name |-> name, reply |-> reply]

\* /addadmin <user_id>, owner only (main.py 392-401)
add_admin(user_id, args) ==
  /\ IF user_id # OWNER_ID
     THEN /\ Replied(user_id, "addadmin", "")
          /\ UNCHANGED admins
     ELSE IF args # <<>> /\ IsInt(args[1])
     THEN /\ admins' = admins \cup {IntOf(args[1])}
          /\ Replied(user_id, "addadmin", "ok")
     ELSE /\ Replied(user_id, "addadmin", "usage")
          /\ UNCHANGED admins
  /\ UNCHANGED <<rest, imp, questions, next_qid, settings, compliments, next_cid>>

\* /removeadmin <user_id>, owner only (main.py 403-411)
remove_admin(user_id, args) ==
  /\ IF user_id # OWNER_ID
     THEN /\ Replied(user_id, "removeadmin", "")
          /\ UNCHANGED admins
     ELSE IF args # <<>> /\ IsInt(args[1])
     THEN /\ admins' = admins \ {IntOf(args[1])}
          /\ Replied(user_id, "removeadmin", "ok")
     ELSE /\ Replied(user_id, "removeadmin", "usage")
          /\ UNCHANGED admins
  /\ UNCHANGED <<rest, imp, questions, next_qid, settings, compliments, next_cid>>

\* mutant: the marker is not validated
ValidCorrect_Any(correct) == TRUE

\* `correct not in ['1','2','3','4','A','B','C','D']` (main.py 447-450)
ValidCorrect(correct) == correct \in ValidMarkers

\* the loop over the blocks of an import (main.py 434-462): a block is
\* given by whether it has at least 7 non-empty lines and by its
\* answer-key line; the key is stripped, upper-cased, validated and stored
RECURSIVE ImportEntries(_, _, _, _, _)
ImportEntries(tbl, nid, added, skipped, raw_entries) ==
  IF raw_entries = <<>>
  THEN [tbl |-> tbl, nid |-> nid, added |-> added, skipped |-> skipped]
  ELSE LET entry   == Head(raw_entries)
           correct == Upper(Strip(entry.key))
       IN  IF entry.full /\ ValidCorrect(correct)
           THEN ImportEntries(Put(tbl, nid, correct), nid + 1, added + 1,
                              skipped, Tail(raw_entries))
           ELSE ImportEntries(tbl, nid, added, skipped + 1, Tail(raw_entries))

\* `.replace("/addquestion", "").strip()` of the message text (main.py
\* 423-424): white space around the blocks goes
StripContent(content) == [content EXCEPT !.blank = FALSE]

\* addquestion from `if not content` on (main.py 426-465): the empty
\* string is refused, anything else goes through the import loop and is
\* answered with the import summary
ImportContent(user_id, content) ==
  LET res == ImportEntries(questions, next_qid, 0, 0, content.entries)
  IN  /\ res.nid <= MaxQuestions + 1
      /\ IF content.entries = <<>> /\ ~content.blank
         THEN /\ Replied(user_id, "addquestion", "no content")
              /\ UNCHANGED <<questions, next_qid>>
         ELSE /\ questions' = res.tbl
              /\ next_qid' = res.nid
              /\ Replied(user_id, "addquestion",
                         "added " \o ToString(res.added)
                           \o " skipped " \o ToString(res.skipped))

\* /addquestion with the blocks in the message text (main.py 415-465):
\* admin check, the stripped text, the import; nothing is awaited before
\* the INSERTs
addquestion(user_id, content) ==
  /\ IF ~is_admin(user_id)
     THEN /\ Replied(user_id, "addquestion", "")
          /\ UNCHANGED <<questions, next_qid>>
     ELSE ImportContent(user_id, StripContent(content))
  /\ UNCHANGED <<rest, imp, settings, admins, compliments, next_cid>>

\* a .txt document (main.py 415-422): the admin check, then the handler
\* awaits get_file and download_as_bytearray and anything may run
addquestion_Document(user_id, content) ==
  /\ imp.pc = "idle"
  /\ Replied(user_id, "addquestion", "")
  /\ imp' = IF is_admin(user_id)
            THEN [pc |-> "download", user_id |-> user_id, content |-> content]
            ELSE imp
  /\ UNCHANGED <<rest, questions, next_qid, settings, admins, compliments,
                 next_cid>>

\* the download has returned (main.py 422-465): the decoded bytes are not
\* stripped; the admin check is not repeated
addquestion_Import ==
  /\ imp.pc = "download"
  /\ ImportContent(imp.user_id, imp.content)
  /\ imp' = IdleImport
  /\ UNCHANGED <<rest, settings, admins, compliments, next_cid>>

\* /delallquestions, owner only (main.py 474-487, database.py 221-223)
del_all_questions(user_id) ==
  /\ IF user_id # OWNER_ID
     THEN /\ Replied(user_id, "delallquestions", "unauthorized")
          /\ UNCHANGED questions
     ELSE /\ questions' = EmptyTable
          /\ Replied(user_id, "delallquestions", "ok")
  /\ UNCHANGED <<rest, imp, next_qid, settings, admins, compliments, next_cid>>

\* /addcompliment <type> <text> (main.py 489-499)
addcompliment(user_id, args) ==
  /\ next_cid <= MaxCompliments
  /\ IF ~is_admin(user_id)
     THEN /\ Replied(user_id, "addcompliment", "")
          /\ UNCHANGED <<compliments, next_cid>>
     ELSE IF args # <<>> /\ Lower(args[1]) \in {"correct", "wrong"}
     THEN /\ compliments' = Put(compliments, next_cid,
                                [type |-> Lower(args[1]),
                                 text |-> Join(Tail(args))])
          /\ next_cid' = next_cid + 1
          /\ Replied(user_id, "addcompliment", "ok")
     ELSE /\ Replied(user_id, "addcompliment", "usage")
          /\ UNCHANGED <<compliments, next_cid>>
  /\ UNCHANGED <<rest, imp, questions, next_qid, settings, admins>>

\* /delcompliment <id> (main.py 525-533)
delcompliment(user_id, args) ==
  /\ IF ~is_admin(user_id)
     THEN /\ Replied(user_id, "delcompliment", "")
          /\ UNCHANGED compliments
     ELSE IF args # <<>> /\ IsInt(args[1])
     THEN /\ compliments' = Del(compliments, IntOf(args[1]))
          /\ Replied(user_id, "delcompliment", "ok")
     ELSE /\ Replied(user_id, "delcompliment", "usage")
          /\ UNCHANGED compliments
  /\ UNCHANGED <<rest, imp, questions, next_qid, settings, admins, next_cid>>

\* /delallcompliments, owner only (main.py 535-548, database.py 217-219)
delallcompliments(user_id) ==
  /\ IF user_id # OWNER_ID
     THEN /\ Replied(user_id, "delallcompliments", "unauthorized")
          /\ UNCHANGED compliments
     ELSE /\ compliments' = EmptyTable
          /\ Replied(user_id, "delallcompliments", "ok")
  /\ UNCHANGED <<rest, imp, questions, next_qid, settings, admins, next_cid>>

\* /broadcast <message> (main.py 552-576): reads users and chats, sends,
\* writes no table
broadcast(user_id, args) ==
  /\ IF ~is_admin(user_id)
     THEN Replied(user_id, "broadcast", "")
     ELSE IF Join(args) = ""
     THEN Replied(user_id, "broadcast", "usage")
     ELSE Replied(user_id, "broadcast", "complete")
  /\ UNCHANGED <<rest, imp, questions, next_qid, settings, admins, compliments,
                 next_cid>>

\* /footer on|off|<text> (main.py 578-601)
footer_cmd(user_id, args) ==
  /\ IF ~is_admin(user_id)
     THEN /\ Replied(user_id, "footer", "")
          /\ UNCHANGED settings
     ELSE IF args = <<>>
     THEN /\ Replied(user_id, "footer", "help")
          /\ UNCHANGED settings
     ELSE IF Lower(args[1]) = "on"
     THEN /\ settings' = [settings EXCEPT !.footer_enabled = "1"]
          /\ Replied(user_id, "footer", "enabled")
     ELSE IF Lower(args[1]) = "off"
     THEN /\ settings' = [settings EXCEPT !.footer_enabled = "0"]
          /\ Replied(user_id, "footer", "disabled")
     ELSE /\ settings' = [settings EXCEPT !.footer_text = Join(args)]
          /\ Replied(user_id, "footer", "updated")
  /\ UNCHANGED <<rest, imp, questions, next_qid, admins, compliments, next_cid>>

\* /autoquiz on|off|interval <min> (main.py 603-629): int() accepts a
\* sign, str() writes the canonical decimal; a second word that is no
\* integer raises ValueError, answered with a hint
autoquiz(user_id, args) ==
  /\ IF ~is_admin(user_id)
     THEN /\ Replied(user_id, "autoquiz", "")
          /\ UNCHANGED settings
     ELSE IF args = <<>>
     THEN /\ Replied(user_id, "autoquiz", "help")
          /\ UNCHANGED settings
     ELSE IF Lower(args[1]) = "on"
     THEN /\ settings' = [settings EXCEPT !.autoquiz_enabled = "1"]
          /\ Replied(user_id, "autoquiz", "on")
     ELSE IF Lower(args[1]) = "off"
     THEN /\ settings' = [settings EXCEPT !.autoquiz_enabled = "0"]
          /\ Replied(user_id, "autoquiz", "off")
     ELSE IF Lower(args[1]) = "interval" /\ Len(args) > 1
     THEN IF IsInt(args[2])
          THEN /\ settings' = [settings EXCEPT !.autoquiz_interval =
                                 ToString(IntOf(args[2]))]
               /\ Replied(user_id, "autoquiz", "interval set")
          ELSE /\ Replied(user_id, "autoquiz", "not a number")
               /\ UNCHANGED settings
     ELSE /\ Replied(user_id, "autoquiz", "")
          /\ UNCHANGED settings
  /\ UNCHANGED <<rest, imp, questions, next_qid, admins, compliments, next_cid>>

\* ------------------------------------------------------- specification
\* the on-demand dispatch path with the question import and the clock
OnDemand ==
  \/ \E c \in ChatIds : SendRandomQuiz_Select(c)
  \/ \E ok \in BOOLEAN : SendRandomQuiz_Send(ok)
  \/ SendRandomQuiz_Track
  \/ SendRandomQuiz_Delete
  \/ SendRandomQuiz_Reply
  \/ \E raw \in MarkerInputs : AddQuestion(raw)
  \/ Tick

Answer ==
  \E p \in PollIds, u \in Users, o \in AnswerOptions,
     un \in UserNames, fn \in FirstNames : HandlePollAnswer(p, u, o, un, fn)

\* answers handled one at a time, quizzes dispatched on demand
Next == Answer \/ OnDemand

Spec == Init /\ [][Next]_vars

StoreError ==
  \/ \E n \in 0..5, p \in PollIds, u \in Users, o \in AnswerOptions,
        un \in UserNames, fn \in FirstNames :
       HandlePollAnswer_StoreError(n, p, u, o, un, fn)
  \/ SendRandomQuiz_StoreError

\* the day does not change here: the day is only a key of DailyStats and
\* has no part in what a failed run leaves behind
NextFault ==
  \/ Answer
  \/ \E c \in ChatIds : SendRandomQuiz_Select(c)
  \/ \E ok \in BOOLEAN : SendRandomQuiz_Send(ok)
  \/ SendRandomQuiz_Track
  \/ SendRandomQuiz_Delete
  \/ SendRandomQuiz_Reply
  \/ \E raw \in MarkerInputs : AddQuestion(raw)
  \/ StoreError

SpecFault == Init /\ [][NextFault]_vars

AnswerSteps ==
  \/ \E h \in Handlers, p \in PollIds, u \in Users, o \in AnswerOptions,
        un \in UserNames, fn \in FirstNames :
       HandlePollAnswer_SyncUser(h, p, u, o, un, fn)
  \/ \E h \in Handlers : HandlePollAnswer_Resolve(h)
  \/ \E h \in Handlers : UpdateUserStats_Users(h)
  \/ \E h \in Handlers : UpdateUserStats_Stats(h)
  \/ \E h \in Handlers : UpdateUserStats_Daily(h)
  \/ \E h \in Handlers : UpdateUserStats_Group(h)

\* the day does not change while the interleaved calls are in flight
NextConc ==
  \/ AnswerSteps
  \/ \E c \in ChatIds : SendRandomQuiz_Select(c)
  \/ \E ok \in BOOLEAN : SendRandomQuiz_Send(ok)
  \/ SendRandomQuiz_Track
  \/ SendRandomQuiz_Delete
  \/ SendRandomQuiz_Reply
  \/ \E raw \in MarkerInputs : AddQuestion(raw)

SpecConc == Init /\ [][NextConc]_vars

\* both dispatch paths with the commands that feed them
NextDispatch ==
  \/ \E c \in ChatIds : SendRandomQuiz_Select(c)
  \/ \E ok \in BOOLEAN : SendRandomQuiz_Send(ok)
  \/ SendRandomQuiz_Track
  \/ SendRandomQuiz_Delete
  \/ SendRandomQuiz_Reply
  \/ AutoQuizJob_Status
  \/ AutoQuizJob_Select
  \/ AutoQuizJob_Chats
  \/ \E ok \in BOOLEAN : AutoQuizJob_Send(ok)
  \/ AutoQuizJob_Track
  \/ AutoQuizJob_Delete
  \/ \E u \in Users, c \in ChatIds, un \in UserNames, fn \in FirstNames :
       Start(u, c, un, fn)
  \/ \E raw \in MarkerInputs : AddQuestion(raw)
  \/ \E arg \in {"on", "off"} : Autoquiz(arg)

SpecDispatch == Init /\ [][NextDispatch]_vars

\* both dispatch paths with store errors in their statements
NextDispatchFault ==
  \/ NextDispatch
  \/ SendRandomQuiz_StoreError
  \/ AutoQuizJob_StoreError

SpecDispatchFault == Init /\ [][NextDispatchFault]_vars

\* the periodic job alone, with several groups registered
NextJob ==
  \/ AutoQuizJob_Status
  \/ AutoQuizJob_Select
  \/ AutoQuizJob_Chats
  \/ \E ok \in BOOLEAN : AutoQuizJob_Send(ok)
  \/ AutoQuizJob_Track
  \/ AutoQuizJob_Delete
  \/ \E u \in Users, c \in Users \cup RankGroups,
        un \in UserNames, fn \in FirstNames : Start(u, c, un, fn)
  \/ \E raw \in MarkerInputs : AddQuestion(raw)
  \/ \E arg \in {"on", "off"} : Autoquiz(arg)

SpecJob == Init /\ [][NextJob]_vars

\* arguments of the admin commands
IdArgs       == {<<>>, <<"1">>, <<"abc">>}
Entries      == [full : BOOLEAN, key : {"1", " b ", "x", "5"}]
ImportArgs   == {<<>>} \cup {<<e>> : e \in Entries}
                  \cup {<<e, [full |-> TRUE, key |-> "d "]>> : e \in Entries}
Contents     == {[blank |-> b, entries |-> <<>>] : b \in BOOLEAN}
                  \cup {[blank |-> FALSE, entries |-> es] : es \in ImportArgs \ {<<>>}}
DocContents  == {[blank |-> b, entries |-> <<>>] : b \in BOOLEAN}
                  \cup {[blank |-> FALSE, entries |-> es] :
                          es \in {<<[full |-> TRUE, key |-> " b "]>>,
                                  <<[full |-> TRUE, key |-> "x"]>>,
                                  <<[full |-> FALSE, key |-> "1"],
                                    [full |-> TRUE, key |-> "d "]>>}}
AdminContents == {[blank |-> b, entries |-> <<>>] : b \in BOOLEAN}
                   \cup {[blank |-> FALSE, entries |-> <<[full |-> TRUE, key |-> k]>>] :
                           k \in {"1", "x"}}
ComplimentArgs == {<<>>, <<"correct", "Well", "done">>, <<"Wrong", "Oops">>,
                   <<"other", "x">>}
TextArgs     == {<<>>, <<"on">>, <<"OFF">>, <<"hi">>}
AutoquizArgs == {<<>>, <<"ON">>, <<"off">>, <<"interval">>, <<"interval", "+5">>,
                 <<"interval", "abc">>, <<"interval", "1.5">>}

\* the admin commands, sent by the owner and by a user who is an admin
\* only after the owner has added them
NextAdmin ==
  \/ \E u \in Senders, a \in IdArgs : add_admin(u, a)
  \/ \E u \in Senders, a \in IdArgs : remove_admin(u, a)
  \/ \E u \in Senders, a \in AdminContents : addquestion(u, a)
  \/ \E u \in Senders, a \in AdminContents : addquestion_Document(u, a)
  \/ addquestion_Import
  \/ \E u \in Senders : del_all_questions(u)
  \/ \E u \in Senders, a \in ComplimentArgs : addcompliment(u, a)
  \/ \E u \in Senders, a \in IdArgs : delcompliment(u, a)
  \/ \E u \in Senders : delallcompliments(u)
  \/ \E u \in Senders, a \in TextArgs : broadcast(u, a)
  \/ \E u \in Senders, a \in TextArgs : footer_cmd(u, a)
  \/ \E u \in Senders, a \in AutoquizArgs : autoquiz(u, a)

SpecAdmin == Init /\ [][NextAdmin]_vars

\* the two commands that validate their input, with the command that
\* makes a user an admin
NextImport ==
  \/ \E u \in Senders, a \in IdArgs : add_admin(u, a)
  \/ \E u \in Senders, a \in Contents : addquestion(u, a)
  \/ \E u \in Senders, a \in DocContents : addquestion_Document(u, a)
  \/ addquestion_Import
  \/ \E u \in Senders, a \in AutoquizArgs : autoquiz(u, a)

SpecImport == Init /\ [][NextImport]_vars

\* update_user_stats called for several users while questions are stored
\* and polls are tracked; the day does not change here
NextFrame ==
  \/ \E u \in Members, c \in GroupArgs, ic \in BOOLEAN,
        un \in UserNames, fn \in FirstNames :
       UpdateUserStats(u, c, ic, un, fn)
  \/ \E raw \in MarkerInputs : AddQuestion(raw)
  \/ \E c \in GroupIds : SendRandomQuiz_Select(c)
  \/ \E ok \in BOOLEAN : SendRandomQuiz_Send(ok)
  \/ SendRandomQuiz_Track
  \/ SendRandomQuiz_Delete
  \/ SendRandomQuiz_Reply

SpecFrame == Init /\ [][NextFrame]_vars

\* the dispatch paths against a platform whose poll
\* ids are not taken to be unique: msg.poll.id is whatever the platform
\* returns, and the INSERT is what stands between it and the table
NextTrack ==
  \/ \E c \in ChatIds : SendRandomQuiz_Select(c)
  \/ \E ok \in BOOLEAN, p \in PollIds : SendRandomQuiz_SendPoll(ok, p)
  \/ SendRandomQuiz_Track
  \/ SendRandomQuiz_Delete
  \/ SendRandomQuiz_Reply
  \/ AutoQuizJob_Status
  \/ AutoQuizJob_Select
  \/ AutoQuizJob_Chats
  \/ \E ok \in BOOLEAN, p \in PollIds : AutoQuizJob_SendPoll(ok, p)
  \/ AutoQuizJob_Track
  \/ AutoQuizJob_Delete
  \/ \E u \in Users, c \in GroupIds, un \in UserNames, fn \in FirstNames :
       Start(u, c, un, fn)
  \/ \E raw \in MarkerInputs : AddQuestion(raw)
  \/ \E arg \in {"on", "off"} : Autoquiz(arg)

SpecTrack == Init /\ [][NextTrack]_vars

\* update_user_stats called with arguments of its whole domain, users
\* removed by the mirror, the day changing
NextBoard ==
  \/ \E u \in Members, c \in GroupArgs, ic \in BOOLEAN,
        un \in ProfileNames, fn \in BoardFirsts :
       UpdateUserStats(u, c, ic, un, fn)
  \/ \E t \in Members : MirrorRemove(t)
  \/ Tick

SpecBoard == Init /\ [][NextBoard]_vars

\* update_user_stats called with every kind of username and first name,
\* the clean-up of the mirror removing profile rows, and the labels of
\* get_leaderboard_data read in every state; the day does not change here
NextLabel ==
  \/ \E u \in Members, c \in GroupArgs, ic \in BOOLEAN,
        un \in ProfileNames, fn \in ProfileFirsts :
       UpdateUserStats(u, c, ic, un, fn)
  \/ \E t \in Members : MirrorRemove(t)

SpecLabel == Init /\ [][NextLabel]_vars

\* update_user_stats called for several users in several groups
NextRank ==
  \E u \in Members, c \in RankArgs, ic \in BOOLEAN,
     un \in UserNames, fn \in FirstNames :
    UpdateUserStats(u, c, ic, un, fn)

SpecRank == Init /\ [][NextRank]_vars

\* ================================================================ claims
GlobalRow(u) == IF u \in DOMAIN stats THEN stats[u]
                ELSE [attempted |-> 0, correct |-> 0, score |-> 0,
                      current_streak |-> 0, max_streak |-> 0,
                      last_activity_date |-> 0]

DailyKeys(u) == {k \in DOMAIN daily_stats : k[1] = u}

GroupKeys(u) == {k \in DOMAIN group_stats : k[2] = u}

\* a step in which update_user_stats was entered for u (Spec: ran for u)
CallStep(u) == calls'[u].n = calls[u].n + 1

CallIsCorrect(u) == calls'[u].c = calls[u].c + 1

Max(a, b) == IF a >= b THEN a ELSE b

\* C1 -- score law: every GlobalStats row has
\* score = 4*correct - (attempted - correct)
C1_ScoreLaw ==
  \A u \in DOMAIN stats :
    stats[u].score = 4 * stats[u].correct - (stats[u].attempted - stats[u].correct)

C1_Witness ==
  \E u \in DOMAIN stats :
    /\ stats[u].attempted >= 3
    /\ stats[u].correct >= 1
    /\ stats[u].correct < stats[u].attempted

\* C2 -- no lost updates: once no handler is in flight for a user, the
\* GlobalStats counters equal the number of update_user_stats calls made for
\* the user and the number of those that were correct, however the calls'
\* statements were interleaved
C2_NoLostUpdates ==
  \A u \in Users :
    (\A h \in Handlers : ans[h].pc # "idle" => ans[h].user_id # u)
      => /\ GlobalRow(u).attempted = calls[u].n
         /\ GlobalRow(u).correct = calls[u].c

C2_Witness ==
  \E u \in Users :
    /\ \A h \in Handlers : ans[h].pc = "idle"
    /\ calls[u].par
    /\ calls[u].n >= 3
    /\ calls[u].c >= 1
    /\ calls[u].c < calls[u].n

\* C3 -- atomic unit for readers: no state of the store shows a call's
\* GlobalStats update without the same call's DailyStats and GroupStats
\* updates
C3_AtomicForReaders ==
  \A h \in Handlers :
    LET global_applied == ans[h].pc \in {"daily", "group"}
        daily_applied  == ans[h].pc \in {"group"}
        group_applied  == FALSE
    IN  ans[h].pc # "idle" /\ global_applied => daily_applied /\ group_applied

\* C4 -- all or nothing on failure: between handler runs the three views
\* agree on what was recorded for every user, so no failed call left
\* GlobalStats updated without DailyStats or GroupStats
C4_AllOrNothing ==
  \A u \in Users :
    /\ GlobalRow(u).attempted = SumField(daily_stats, DailyKeys(u), "attempted")
    /\ GlobalRow(u).attempted = SumField(group_stats, GroupKeys(u), "attempted")
    /\ GlobalRow(u).correct = SumField(daily_stats, DailyKeys(u), "correct")
    /\ GlobalRow(u).correct = SumField(group_stats, GroupKeys(u), "correct")

\* C5 -- reference result of one call, for every prior row and flag:
\* absent+correct (1,1,4,1,1); absent+incorrect (1,0,-1,0,0);
\* present+correct attempted+1, correct+1, score+4, streak+1,
\* max = max(old max, old streak + 1); present+incorrect attempted+1,
\* score-1, streak 0, correct and max unchanged; and three correct answers
\* followed by an incorrect one leave (4,3,11,0,3)
C5_Reference(u) ==
  LET old == GlobalRow(u)
      new == stats'[u]
  IN  /\ u \in DOMAIN stats'
      /\ new.attempted = old.attempted + 1
      /\ IF CallIsCorrect(u)
         THEN /\ new.correct = old.correct + 1
              /\ new.score = old.score + 4
              /\ new.current_streak = old.current_streak + 1
              /\ new.max_streak = Max(old.max_streak, old.current_streak + 1)
         ELSE /\ new.correct = old.correct
              /\ new.score = old.score - 1
              /\ new.current_streak = 0
              /\ new.max_streak = old.max_streak
      /\ (old.attempted = 3 /\ old.correct = 3 /\ ~CallIsCorrect(u))
           => /\ new.attempted = 4 /\ new.correct = 3 /\ new.score = 11
              /\ new.current_streak = 0 /\ new.max_streak = 3

C5_ReferenceResult == [][\A u \in Users : CallStep(u) => C5_Reference(u)]_vars

C5_Witness ==
  \E u \in DOMAIN stats :
    /\ stats[u].attempted = 4 /\ stats[u].correct = 3 /\ stats[u].score = 11
    /\ stats[u].current_streak = 0 /\ stats[u].max_streak = 3

\* C6 -- streak law: current_streak <= max_streak in every state, and the
\* state right after an incorrect answer has current_streak = 0
C6_StreakLaw ==
  /\ [](\A u \in DOMAIN stats : stats[u].current_streak <= stats[u].max_streak)
  /\ [][\A u \in Users : CallStep(u) /\ ~CallIsCorrect(u)
          => u \in DOMAIN stats' /\ stats'[u].current_streak = 0]_vars

C6_Witness ==
  \E u \in DOMAIN stats :
    /\ stats[u].max_streak >= 2
    /\ stats[u].current_streak = 0

\* C7 -- max_streak never decreases from one state to the next, and a
\* GlobalStats row never disappears, also when the statements of several
\* handlers for the same user are interleaved one by one
C7_MaxStreakMonotonic ==
  [][\A u \in DOMAIN stats :
       u \in DOMAIN stats' /\ stats'[u].max_streak >= stats[u].max_streak]_vars

\* two correct answers and a wrong one were recorded for a user, two of
\* the calls overlapping: the streak is back at 0 below the best of 2
C7_Witness ==
  \E u \in DOMAIN stats :
    /\ calls[u].par
    /\ stats[u].max_streak = 2
    /\ stats[u].current_streak = 0
    /\ stats[u].attempted = 3

\* C8 -- correct <= attempted in every GlobalStats row
C8_CorrectAtMostAttempted ==
  \A u \in DOMAIN stats : stats[u].correct <= stats[u].attempted

C8_Witness ==
  \E u \in DOMAIN stats :
    /\ stats[u].attempted >= 2
    /\ stats[u].correct = stats[u].attempted

\* C9 -- single use: no (poll, user) answer is scored twice, so a user's
\* attempted count never exceeds the number of distinct polls scored for
\* that user
C9_SingleUse ==
  \A u \in Users :
    GlobalRow(u).attempted <= Cardinality({p \in PollIds : <<p, u>> \in scored})

\* C10 -- no stored question is delivered by two dispatch operations
C10_ServedOnce == \A q \in DOMAIN served : served[q] <= 1

\* C11 -- a question leaves the store only after a poll carrying it was
\* sent to at least one chat
C11_DeleteAfterDelivery ==
  [][\A q \in DOMAIN questions : q \notin DOMAIN questions' => served[q] >= 1]_vars

\* the question an on-demand draw has delivered and not yet retired
InFlight(q) == quiz.pc \in {"track", "delete"} /\ quiz.q = q

\* C12 -- exhaustion under sequential on-demand draws: no question is
\* delivered twice; a question is out of the store exactly when a draw that
\* delivered it has completed, so K completed draws empty a pool of K; a draw
\* returns a stored question, or the empty notice when the store is empty; a
\* retired question never comes back
C12_Exhaustion ==
  /\ [](\A q \in 1..(next_qid - 1) :
          /\ served[q] <= 1
          /\ q \in DOMAIN questions <=> (served[q] = 0 \/ InFlight(q)))
  /\ [][(quiz.pc = "idle" /\ quiz' # quiz)
          => IF questions = EmptyTable
             THEN quiz' = ReplyQuiz("empty")
             ELSE quiz'.pc = "send" /\ quiz'.q \in DOMAIN questions]_vars
  /\ [][\A q \in 1..(next_qid - 1) :
          q \notin DOMAIN questions => q \notin DOMAIN questions']_vars

C12_Witness ==
  /\ next_qid = MaxQuestions + 1
  /\ questions = EmptyTable
  /\ \A q \in 1..MaxQuestions : served[q] = 1
  /\ quiz = ReplyQuiz("empty")

\* C13 -- null-preserving profile refresh: a profile row stays, and a
\* stored username or first name is never replaced by null
C13_NullPreserving ==
  [][\A u \in DOMAIN users :
       /\ u \in DOMAIN users'
       /\ users[u].username # NULL => users'[u].username # NULL
       /\ users[u].first_name # NULL => users'[u].first_name # NULL]_vars

\* C15 -- an answer event for a poll without tracking entry changes no
\* GlobalStats, DailyStats or GroupStats row, raises nothing and starts no
\* dispatch
C15_UntrackedIgnored ==
  [][\A p \in PollIds, u \in Users, o \in AnswerOptions,
        un \in UserNames, fn \in FirstNames :
       (p \notin DOMAIN active_polls /\ HandlePollAnswer(p, u, o, un, fn))
         => UNCHANGED <<stats, daily_stats, group_stats, errors, quiz, job>>]_vars

C15_Witness ==
  /\ users # EmptyTable
  /\ stats = EmptyTable
  /\ TotalCalls = 0
  /\ \E p \in PollIds : p < next_poll /\ p \notin DOMAIN active_polls

\* C18 -- empty pool: with no question stored, /randomquiz answers with the
\* empty notice and the job run ends; neither sends a poll, tracks a poll
\* or changes the question store
C18_EmptyPool ==
  /\ [][questions = EmptyTable
          => /\ (quiz.pc = "idle" /\ quiz' # quiz)
                  => /\ quiz' = ReplyQuiz("empty")
                     /\ UNCHANGED <<active_polls, questions, next_poll, served>>
             /\ (job.pc = "select" /\ job' # job)
                  => /\ job' = IdleJob
                     /\ UNCHANGED <<active_polls, questions, next_poll, served>>]_vars
  /\ [][(quiz = ReplyQuiz("empty") /\ quiz' # quiz)
          => /\ quiz' = IdleQuiz
             /\ UNCHANGED <<active_polls, questions, next_poll, served>>]_vars

C18_Witness ==
  /\ quiz = ReplyQuiz("empty")
  /\ questions = EmptyTable
  /\ job.pc = "idle"
  /\ settings.autoquiz_enabled = "1"

\* C14 -- a tracking entry is permanent and write-once: an entry never
\* disappears and never changes; an INSERT for a poll id that is already
\* tracked fails, and /randomquiz reports the failure and keeps the question
C14_WriteOnce ==
  /\ [][\A p \in DOMAIN active_polls :
          p \in DOMAIN active_polls' /\ active_polls'[p] = active_polls[p]]_vars
  /\ [][(quiz.pc = "track" /\ quiz' # quiz /\ quiz.poll_id \in DOMAIN active_polls)
          => /\ quiz'.pc = "reply" /\ quiz'.notice = "failed"
             /\ questions' = questions]_vars

C14_Witness ==
  /\ quiz.pc = "reply" /\ quiz.notice = "failed"
  /\ quiz.poll_id \in DOMAIN active_polls
  /\ active_polls[quiz.poll_id].correct_option_id # quiz.c_idx

\* a step whose GlobalStats change is that of one call for u
Recorded(u, ic) == stats' = StatsUpsert(stats, u, ic, clock)

DailyRow(k) == IF k \in DOMAIN daily_stats THEN daily_stats[k]
               ELSE [attempted |-> 0, correct |-> 0]

\* C16 -- a call made on day d adds 1 to attempted and, iff the answer is
\* correct, 1 to correct of the caller's DailyStats row of day d, creating
\* it if absent, and changes no other DailyStats row
C16_DailyEffect ==
  [][\A u \in Members, ic \in BOOLEAN : Recorded(u, ic) =>
      \A c \in GroupArgs, un \in ProfileNames, fn \in BoardFirsts :
       UpdateUserStats(u, c, ic, un, fn)
         => /\ DOMAIN daily_stats' = (DOMAIN daily_stats) \cup {<<u, clock>>}
            /\ daily_stats'[<<u, clock>>].attempted
                 = DailyRow(<<u, clock>>).attempted + 1
            /\ daily_stats'[<<u, clock>>].correct
                 = DailyRow(<<u, clock>>).correct + (IF ic THEN 1 ELSE 0)
            /\ \A k \in (DOMAIN daily_stats) \ {<<u, clock>>} :
                 daily_stats'[k] = daily_stats[k]]_vars

C16_Witness ==
  \E u, v \in Members :
    /\ u # v
    /\ <<u, 1>> \in DOMAIN daily_stats
    /\ <<u, 2>> \in DOMAIN daily_stats
    /\ \E d \in Days : <<v, d>> \in DOMAIN daily_stats
    /\ daily_stats[<<u, 1>>].correct # daily_stats[<<u, 2>>].correct

GroupRow(k) == IF k \in DOMAIN group_stats THEN group_stats[k]
               ELSE [attempted |-> 0, correct |-> 0, score |-> 0]

\* C17 -- with a group id, a call adds 1 to attempted, 1 to correct iff
\* correct and +4 or -1 to score of the (group, user) row, creating it if
\* absent, and changes no other GroupStats row; without a group id the
\* GroupStats table is unchanged
C17_GroupEffect ==
  [][\A u \in Members, ic \in BOOLEAN : Recorded(u, ic) =>
      \A c \in GroupArgs, un \in ProfileNames, fn \in BoardFirsts :
       UpdateUserStats(u, c, ic, un, fn)
         => IF c = 0
            THEN group_stats' = group_stats
            ELSE /\ DOMAIN group_stats' = (DOMAIN group_stats) \cup {<<c, u>>}
                 /\ group_stats'[<<c, u>>].attempted
                      = GroupRow(<<c, u>>).attempted + 1
                 /\ group_stats'[<<c, u>>].correct
                      = GroupRow(<<c, u>>).correct + (IF ic THEN 1 ELSE 0)
                 /\ group_stats'[<<c, u>>].score
                      = GroupRow(<<c, u>>).score + (IF ic THEN 4 ELSE 0 - 1)
                 /\ \A k \in (DOMAIN group_stats) \ {<<c, u>>} :
                      group_stats'[k] = group_stats[k]]_vars

C17_Witness ==
  \E u, v \in Members, g \in GroupIds :
    /\ u # v
    /\ <<g, u>> \in DOMAIN group_stats
    /\ group_stats[<<g, u>>].attempted = 2
    /\ group_stats[<<g, u>>].score = 3
    /\ v \in DOMAIN stats
    /\ <<g, v>> \notin DOMAIN group_stats

Min(a, b) == IF a <= b THEN a ELSE b

\* C19 -- the global leaderboard with limit L has min(L, number of
\* GlobalStats rows) rows, in non-increasing score order, and every
\* GlobalStats row that scores more than the last returned row is returned
C19_Ranking ==
  \A L \in Limits : \A r \in get_leaderboard_data(0, L) :
    /\ Len(r) = Min(L, Cardinality(DOMAIN stats))
    /\ \A i \in 1..(Len(r) - 1) : r[i].score >= r[i + 1].score
    /\ r # <<>> =>
         LET last == r[Len(r)].score
         IN  Cardinality({u \in DOMAIN stats : stats[u].score > last})
               = Cardinality({i \in 1..Len(r) : r[i].score > last})

C19_Witness ==
  \E u, v, w \in DOMAIN stats :
    /\ u # v /\ stats[u].score = stats[v].score
    /\ stats[w].score < stats[u].score
    /\ Cardinality(DOMAIN stats) = MaxMembers

\* the label the precedence rule gives a user
Label(u) ==
  LET has == u \in DOMAIN users
  IN  IF has /\ users[u].username # NULL /\ users[u].username # ""
      THEN "@" \o users[u].username
      ELSE IF has /\ users[u].first_name # NULL
           THEN users[u].first_name
           ELSE "Participant " \o ToString(u)

\* C20 -- every row of a global or group leaderboard is the row of a user
\* whose label is "@"+username if the username is neither null nor empty,
\* else the first name if not null, else "Participant "+user id, also when
\* the user has no profile row; the label is never null, and it is empty
\* only for a user whose stored first name is the empty string and whose
\* username is null or empty
C20_DisplayNamePrecedence ==
  \A c \in GroupArgs, L \in Limits : \A r \in get_leaderboard_data(c, L) :
    \A i \in 1..Len(r) :
      /\ r[i].display_name # NULL
      /\ \E u \in Members :
           /\ r[i].display_name = Label(u)
           /\ r[i].display_name = ""
                => /\ u \in DOMAIN users
                   /\ users[u].first_name = ""
                   /\ users[u].username \in {NULL, ""}
           /\ IF c = 0
              THEN /\ u \in DOMAIN stats
                   /\ r[i].score = stats[u].score
              ELSE /\ <<c, u>> \in DOMAIN group_stats
                   /\ r[i].score = group_stats[<<c, u>>].score

\* C20 as stated -- the same precedence, and every row has a non-empty
\* label
C20_DisplayName ==
  \A c \in GroupArgs, L \in Limits : \A r \in get_leaderboard_data(c, L) :
    \A i \in 1..Len(r) :
      /\ r[i].display_name # ""
      /\ r[i].display_name # NULL
      /\ \E u \in Members :
           /\ r[i].display_name = Label(u)
           /\ IF c = 0
              THEN /\ u \in DOMAIN stats
                   /\ r[i].score = stats[u].score
              ELSE /\ <<c, u>> \in DOMAIN group_stats
                   /\ r[i].score = group_stats[<<c, u>>].score

\* three users on the board: one without profile row, one with an empty
\* username and an empty first name, one with a username
C20_Witness ==
  \E u, v, w \in DOMAIN stats :
    /\ u \notin DOMAIN users
    /\ v \in DOMAIN users /\ users[v].username = "" /\ users[v].first_name = ""
    /\ w \in DOMAIN users /\ users[w].username = "nick"

\* C21 -- the global rank of a user with a GlobalStats row is 1 plus the
\* number of rows that score strictly more; users of equal score have equal
\* ranks and a highest scorer has rank 1
C21_GlobalRank ==
  \A u \in DOMAIN stats :
    LET rank(x) == mystats(x, 0, TRUE).global_rank
    IN  /\ rank(u) = 1 + Cardinality({v \in DOMAIN stats :
                                        stats[v].score > stats[u].score})
        /\ \A v \in DOMAIN stats :
             /\ stats[v].score = stats[u].score => rank(v) = rank(u)
             /\ stats[v].score > stats[u].score => rank(v) < rank(u)
        /\ (\A v \in DOMAIN stats : stats[v].score <= stats[u].score)
             => rank(u) = 1

C21_Witness ==
  \E u, v, w \in DOMAIN stats :
    /\ u # v /\ stats[u].score = stats[v].score
    /\ stats[w].score > stats[u].score
    /\ mystats(u, 0, TRUE).global_rank = 2
    /\ mystats(v, 0, TRUE).global_rank = 2

\* C27 -- the group rank reported to a user in group g is 1 plus the
\* number of GroupStats rows of g that score strictly more than the user's
\* own row in g
C27_GroupRank ==
  \A g \in RankGroups, u \in Members :
    (u \in DOMAIN stats /\ <<g, u>> \in DOMAIN group_stats)
      => mystats(u, g, FALSE).group_rank
           = 1 + Cardinality({k \in DOMAIN group_stats :
                   k[1] = g /\ group_stats[k].score > group_stats[<<g, u>>].score})

\* the attempted, correct and score columns of a leaderboard
Figures(r) ==
  [i \in 1..Len(r) |-> <<r[i].attempted, r[i].correct, r[i].score>>]

\* the possible results of the leaderboard of group g, figures only
GroupFigures(g, L) == {Figures(r) : r \in get_leaderboard_data(g, L)}

\* C30 -- the leaderboard of group g with limit L returns min(L, rows of g)
\* rows, each the GroupStats row of g of a distinct user with that row's
\* attempted, correct and score, in non-increasing score order, cut after
\* the top L; an answer recorded in another group or in private chat leaves
\* the figures of g's leaderboard unchanged
C30_GroupLeaderboard ==
  /\ [](\A g \in RankGroups, L \in Limits : \A r \in get_leaderboard_data(g, L) :
         LET rows == {k \in DOMAIN group_stats : k[1] = g}
         IN  /\ Len(r) = Min(L, Cardinality(rows))
             /\ \A i \in 1..(Len(r) - 1) : r[i].score >= r[i + 1].score
             /\ \E f \in [1..Len(r) -> Members] :
                  /\ \A i, j \in 1..Len(r) : f[i] = f[j] => i = j
                  /\ \A i \in 1..Len(r) :
                       /\ <<g, f[i]>> \in rows
                       /\ r[i].display_name = Label(f[i])
                       /\ r[i].attempted = group_stats[<<g, f[i]>>].attempted
                       /\ r[i].correct = group_stats[<<g, f[i]>>].correct
                       /\ r[i].score = group_stats[<<g, f[i]>>].score
             /\ r # <<>> =>
                  LET last == r[Len(r)].score
                  IN  Cardinality({k \in rows : group_stats[k].score > last})
                        = Cardinality({i \in 1..Len(r) : r[i].score > last}))
  /\ [][\A u \in Members, ic \in BOOLEAN : Recorded(u, ic) =>
         \A c \in RankArgs, un \in UserNames, fn \in FirstNames :
           UpdateUserStats(u, c, ic, un, fn)
             => \A g \in RankGroups \ {c}, L \in Limits :
                  GroupFigures(g, L)' = GroupFigures(g, L)]_vars

\* a user with different figures in two groups and globally, and a group
\* whose leaderboard is cut by the limit
C30_Witness ==
  \E u, v \in Members, g, h \in RankGroups :
    /\ u # v /\ g # h
    /\ {<<g, u>>, <<g, v>>, <<h, u>>} \subseteq DOMAIN group_stats
    /\ group_stats[<<g, u>>].score # group_stats[<<h, u>>].score
    /\ stats[u].score # group_stats[<<g, u>>].score
    /\ \A r \in get_leaderboard_data(g, 1) : Len(r) = 1

\* C26 -- an answer with option o to a tracked poll counts as correct
\* exactly when o is the correct-option index of the poll's tracking entry,
\* and the only GroupStats row it changes is the one of the chat stored in
\* that entry; the entry written by the on-demand dispatch holds the chat
\* the quiz was sent to and the index computed for the sent question
C26_ScoredFromEntry ==
  /\ [][\A p \in DOMAIN active_polls, u \in Users, o \in AnswerOptions :
         (p < next_poll /\ calls'[u].n = calls[u].n + 1) =>
           \A un \in UserNames, fn \in FirstNames :
             HandlePollAnswer(p, u, o, un, fn)
               => LET e   == active_polls[p]
                      hit == (o = e.correct_option_id)
                      k   == <<e.chat_id, u>>
                  IN  /\ stats'[u].attempted = GlobalRow(u).attempted + 1
                      /\ stats'[u].correct
                           = GlobalRow(u).correct + (IF hit THEN 1 ELSE 0)
                      /\ stats'[u].score
                           = GlobalRow(u).score + (IF hit THEN 4 ELSE 0 - 1)
                      /\ DOMAIN group_stats' = (DOMAIN group_stats) \cup {k}
                      /\ group_stats'[k].attempted = GroupRow(k).attempted + 1
                      /\ group_stats'[k].correct
                           = GroupRow(k).correct + (IF hit THEN 1 ELSE 0)
                      /\ \A j \in (DOMAIN group_stats) \ {k} :
                           group_stats'[j] = group_stats[j]]_vars
  /\ [][(quiz.pc = "track" /\ quiz'.pc = "delete")
         => /\ quiz.c_idx = CorrectIdx(questions[quiz.q])
            /\ active_polls'[quiz.poll_id]
                 = [chat_id |-> quiz.chat_id, correct_option_id |-> quiz.c_idx]]_vars

\* one user has answered two tracked polls of different chats and different
\* correct options, once correctly with an option other than the first
C26_Witness ==
  \E u \in Users, p, q \in DOMAIN active_polls :
    /\ active_polls[p].chat_id # active_polls[q].chat_id
    /\ active_polls[p].correct_option_id = 1
    /\ active_polls[q].correct_option_id = 0
    /\ {<<p, u>>, <<q, u>>} \subseteq scored
    /\ {<<active_polls[p].chat_id, u>>, <<active_polls[q].chat_id, u>>}
         \subseteq DOMAIN group_stats
    /\ group_stats[<<active_polls[p].chat_id, u>>].correct = 1
    /\ stats[u].attempted = 2

\* C25 -- a run of the answer handler for a tracked poll in which a
\* statement of the stats update raises a store error still ends with the
\* answer recorded in GlobalStats, DailyStats and GroupStats (a retry
\* succeeded) or with a failure shown to the user; handle_poll_answer has
\* no reply on this path, so a run that ends by the error must have
\* recorded the answer
C25_RetriedOrSurfaced ==
  [][(errors' = errors + 1 /\ quiz' = quiz) =>
      \A n \in 2..5, p \in DOMAIN active_polls, u \in Users,
         o \in AnswerOptions, un \in UserNames, fn \in FirstNames :
        HandlePollAnswer_StoreError(n, p, u, o, un, fn)
          => LET k == <<active_polls[p].chat_id, u>>
             IN  /\ u \in DOMAIN stats'
                 /\ stats'[u].attempted = GlobalRow(u).attempted + 1
                 /\ <<u, clock>> \in DOMAIN daily_stats'
                 /\ daily_stats'[<<u, clock>>].attempted
                      = DailyRow(<<u, clock>>).attempted + 1
                 /\ k \in DOMAIN group_stats'
                 /\ group_stats'[k].attempted = GroupRow(k).attempted + 1]_vars

\* C24 -- when the INSERT of the tracking entry of a sent poll raises a
\* store error, the dispatch path reports it: the on-demand handler goes to
\* its failure reply, the periodic job is ended by the exception
C24_TrackingErrorSurfaced ==
  [][errors' = errors + 1 =>
      /\ (quiz.pc = "track" /\ quiz' # quiz)
           => (quiz'.pc = "reply" /\ quiz'.notice = "failed")
      /\ (job.pc = "track" /\ job' # job) => job' = IdleJob]_vars

\* the job is inside a run, after its question was picked
JobRunning == job.pc \in {"chats", "send", "track", "delete"}

\* C28 -- a run of the periodic job picks one stored question and keeps it
\* and its correct index to the end of the run; it visits every registered
\* group once; a failed send adds no tracking entry; a successful send adds
\* exactly one, holding that chat's id and the question's correct index;
\* the run ends by removing that question and no other
C28_JobRun ==
  /\ [](JobRunning =>
         /\ job.q \in DOMAIN questions
         /\ job.c_idx = CorrectIdx(questions[job.q])
         /\ \A i, j \in 1..Len(job.todo) : job.todo[i] = job.todo[j] => i = j)
  /\ [][(JobRunning /\ job' # job) =>
         /\ job'.pc # "idle" => (job'.q = job.q /\ job'.c_idx = job.c_idx)
         /\ job.pc = "chats" =>
              /\ {job'.todo[i] : i \in 1..Len(job'.todo)} = chats
              /\ Len(job'.todo) = Cardinality(chats)
              /\ UNCHANGED <<active_polls, questions>>
         /\ job.pc = "send" =>
              /\ UNCHANGED <<active_polls, questions>>
              /\ job'.pc = "track" => job'.todo = job.todo
              /\ job'.pc # "track" => job'.todo = Tail(job.todo)
         /\ job.pc = "track" =>
              /\ job.poll_id \notin DOMAIN active_polls
              /\ DOMAIN active_polls' = (DOMAIN active_polls) \cup {job.poll_id}
              /\ active_polls'[job.poll_id]
                   = [chat_id |-> Head(job.todo), correct_option_id |-> job.c_idx]
              /\ \A p \in DOMAIN active_polls : active_polls'[p] = active_polls[p]
              /\ job'.todo = Tail(job.todo)
              /\ UNCHANGED questions
         /\ job.pc = "delete" =>
              /\ job.todo = <<>>
              /\ job' = IdleJob
              /\ DOMAIN questions' = (DOMAIN questions) \ {job.q}
              /\ \A id \in DOMAIN questions' : questions'[id] = questions[id]
              /\ UNCHANGED active_polls]_vars

\* a run over two registered groups in which one send failed and one
\* succeeded has ended: one tracking entry, one of two questions removed
C28_Witness ==
  /\ job = IdleJob
  /\ Cardinality(chats) = 2
  /\ Cardinality(DOMAIN active_polls) = 1
  /\ next_poll = 2
  /\ next_qid = 3
  /\ Cardinality(DOMAIN questions) = 1
  /\ \E q \in 1..MaxQuestions : served[q] = 1 /\ q \notin DOMAIN questions

\* the option index of an accepted marker: 1..4 and A..D give 0..3
OptionIndex(m) == CASE m \in {"1", "A"} -> 0 [] m \in {"2", "B"} -> 1
                    [] m \in {"3", "C"} -> 2 [] m \in {"4", "D"} -> 3

\* C29 -- every stored marker is one of 1,2,3,4,A,B,C,D, and a dispatch
\* path that has picked a question goes on to send it with the option
\* index 0..3 of that marker; so no question whose marker is outside the
\* eight accepted values is dispatched as a poll with a default correct
\* option
C29_NoDefaultOption ==
  /\ [](\A id \in DOMAIN questions : questions[id] \in ValidMarkers)
  /\ [][(quiz.pc = "idle" /\ quiz'.pc = "send")
         => /\ Upper(questions[quiz'.q]) \in ValidMarkers
            /\ quiz'.c_idx = OptionIndex(Upper(questions[quiz'.q]))]_vars
  /\ [][(job.pc = "select" /\ job'.pc = "chats")
         => /\ Upper(questions[job'.q]) \in ValidMarkers
            /\ job'.c_idx = OptionIndex(Upper(questions[job'.q]))]_vars

\* an import with the marker x was refused and one with b was stored as B;
\* the on-demand path sends that question with option index 1 while the
\* job has picked a question with marker 1 and index 0
C29_Witness ==
  /\ quiz.pc = "send"
  /\ quiz.q \in DOMAIN questions
  /\ questions[quiz.q] = "B"
  /\ quiz.c_idx = 1
  /\ job.pc = "chats"
  /\ job.q \in DOMAIN questions
  /\ questions[job.q] = "1"
  /\ job.c_idx = 0

\* the tables an admin command can write
admin_tables == <<questions, next_qid, settings, admins, compliments, next_cid>>

\* a step in which a handler is entered, as opposed to the step in which
\* an import that passed the admin check earlier gets its document
Entered == ~(imp.pc = "download" /\ imp'.pc = "idle")

\* C22 -- a command of the admin set (question import, delete-all,
\* settings, compliments, broadcast, add and remove admin) sent by a user
\* who is neither the owner nor in the admins table changes none of the
\* questions, settings, admins and compliments tables, is answered with
\* nothing or with the unauthorized notice, and leaves no import waiting
\* for its document
C22_Unauthorized ==
  [][(Entered /\ cmd'.user # OWNER_ID /\ cmd'.user \notin admins)
      => /\ UNCHANGED admin_tables
         /\ UNCHANGED imp
         /\ cmd'.reply \in {"", "unauthorized"}]_vars

\* a user outside the admins table has just sent a document for
\* /addquestion while the tables hold rows, got no answer and no download
\* was started
C22_Witness ==
  /\ cmd.user \in Users
  /\ cmd.user \notin admins
  /\ cmd.name = "addquestion"
  /\ cmd.reply = ""
  /\ imp.pc = "idle"
  /\ questions # EmptyTable
  /\ compliments # EmptyTable
  /\ settings # SettingsDefaults

\* the blocks of an import that pass the length test and whose key line,
\* stripped and upper-cased, is one of the eight accepted markers
Importable(raw_entries) ==
  {i \in 1..Len(raw_entries) :
     /\ raw_entries[i].full
     /\ Upper(Strip(raw_entries[i].key)) \in ValidMarkers}

\* C23 -- an import stores one row per block with an accepted marker and
\* none for the others, so every stored marker is one of 1,2,3,4,A,B,C,D;
\* /autoquiz interval with a word that is no integer leaves the settings
\* as they were
C23_ValidationKeepsState ==
  /\ [](\A id \in DOMAIN questions : questions[id] \in ValidMarkers)
  /\ [][(cmd'.name = "addquestion" /\ imp' = imp) =>
         \A a \in Contents :
           addquestion(cmd'.user, a) =>
             /\ \A id \in DOMAIN questions : id \in DOMAIN questions'
                                              /\ questions'[id] = questions[id]
             /\ Cardinality((DOMAIN questions') \ DOMAIN questions)
                  <= Cardinality(Importable(a.entries))
             /\ is_admin(cmd'.user) =>
                  Cardinality((DOMAIN questions') \ DOMAIN questions)
                    = Cardinality(Importable(a.entries))]_vars
  /\ [][(imp.pc = "download" /\ imp'.pc = "idle") =>
         /\ \A id \in DOMAIN questions : id \in DOMAIN questions'
                                          /\ questions'[id] = questions[id]
         /\ Cardinality((DOMAIN questions') \ DOMAIN questions)
              = Cardinality(Importable(imp.content.entries))]_vars
  /\ [][cmd'.name = "autoquiz" =>
         \A a \in AutoquizArgs :
           (Len(a) > 1 /\ ~IsInt(a[2]) /\ autoquiz(cmd'.user, a))
             => UNCHANGED settings]_vars

\* an admin has just sent /autoquiz interval with a word that is no
\* integer, after the interval was set and questions were imported
C23_Witness ==
  /\ cmd.name = "autoquiz"
  /\ cmd.reply = "not a number"
  /\ settings.autoquiz_interval = "5"
  /\ questions # EmptyTable

\* no handler is between the first and the last statement of
\* update_user_stats for user u
NoneInFlight(u) == Updating(u) = {}

\* C31 -- whenever no update_user_stats call is in flight for a user, the
\* user's GlobalStats attempted, correct and score each equal the sum of
\* the same column over the user's GroupStats rows of all chats
C31_GlobalEqualsGroups ==
  \A u \in Users :
    NoneInFlight(u) =>
      /\ GlobalRow(u).attempted = SumField(group_stats, GroupKeys(u), "attempted")
      /\ GlobalRow(u).correct = SumField(group_stats, GroupKeys(u), "correct")
      /\ GlobalRow(u).score = SumField(group_stats, GroupKeys(u), "score")

\* C32 -- whenever no update_user_stats call is in flight for a user, the
\* user's GlobalStats attempted and correct equal the sums of the same
\* columns over the user's DailyStats rows of all days, and every
\* DailyStats row has correct <= attempted
C32_GlobalEqualsDays ==
  /\ \A u \in Users :
       NoneInFlight(u) =>
         /\ GlobalRow(u).attempted = SumField(daily_stats, DailyKeys(u), "attempted")
         /\ GlobalRow(u).correct = SumField(daily_stats, DailyKeys(u), "correct")
  /\ \A k \in DOMAIN daily_stats :
       daily_stats[k].correct <= daily_stats[k].attempted

\* C34 -- every user id with a GlobalStats row or a GroupStats row has a
\* UserProfile row
C34_ProfileExists ==
  \A u \in (DOMAIN stats) \cup {k[2] : k \in DOMAIN group_stats} :
    u \in DOMAIN users

\* the profile row of a user, if any
ProfileRow(v) == IF v \in DOMAIN users THEN <<users[v]>> ELSE <<>>

\* C33 -- a call of update_user_stats for user u changes, in the four
\* profile and statistics tables, only rows keyed by u: the profile of u,
\* the GlobalStats row of u, the DailyStats row (u, today) and the
\* GroupStats row (group, u); no row of another user appears, disappears
\* or changes, and the question and poll-tracking tables stay as they were
C33_Frame ==
  [][\A u \in Members, ic \in BOOLEAN : Recorded(u, ic) =>
      \A c \in GroupArgs, un \in UserNames, fn \in FirstNames :
       UpdateUserStats(u, c, ic, un, fn)
         => /\ \A v \in Members \ {u} :
                 /\ ProfileRow(v)' = ProfileRow(v)
                 /\ (v \in DOMAIN stats') = (v \in DOMAIN stats)
                 /\ v \in DOMAIN stats => stats'[v] = stats[v]
            /\ \A k \in (DOMAIN daily_stats) \cup DOMAIN daily_stats' :
                 k # <<u, clock>> =>
                   /\ k \in DOMAIN daily_stats /\ k \in DOMAIN daily_stats'
                   /\ daily_stats'[k] = daily_stats[k]
            /\ \A k \in (DOMAIN group_stats) \cup DOMAIN group_stats' :
                 k # <<c, u>> =>
                   /\ k \in DOMAIN group_stats /\ k \in DOMAIN group_stats'
                   /\ group_stats'[k] = group_stats[k]
            /\ UNCHANGED <<questions, next_qid, active_polls>>]_vars

\* a call was made for one user while another user has rows in all four
\* tables, a question is stored and a poll is tracked
C33_Witness ==
  \E u, v \in DOMAIN stats :
    /\ u # v
    /\ {u, v} \subseteq DOMAIN users
    /\ users[u].username # users[v].username
    /\ \E g \in GroupIds : {<<g, u>>, <<g, v>>} \subseteq DOMAIN group_stats
    /\ {<<u, clock>>, <<v, clock>>} \subseteq DOMAIN daily_stats
    /\ questions # EmptyTable
    /\ active_polls # EmptyTable

====
